---- MODULE Spec2Model ----
(***************************************************************************)
(* State-machine model of the Lua-skyla execution core.                    *)
(*                                                                         *)
(*   Table engine            src/src/ltable.rs                             *)
(*   Garbage collector       src/src/lgc.rs                                *)
(*   Protected calls, stack  src/src/ldo.rs, src/src/func.rs               *)
(*   Coroutine library       src/src/lcorolib.rs, src/src/lapi.rs          *)
(*   Yields                  src/src/lstate.rs, src/src/ldo.rs             *)
(*   Memory manager          src/src/lmem.rs                               *)
(*   Dispatch                src/src/lvm.rs, src/src/ljumptab.rs           *)
(*   Limits                  src/src/llimits.rs, src/src/ldo.rs            *)
(*   Upvalues                src/src/func.rs                               *)
(*   Metamethod registry     src/src/ltm.rs                                *)
(*                                                                         *)
(* Each subsystem has its own next-state relation and specification; the   *)
(* variables of the other subsystems stay at their initial values.         *)
(***************************************************************************)
EXTENDS Integers, Sequences, FiniteSets, TLC

VARIABLES
    array,      \* Table.array: Vec<Option<LuaValue>>, kept sparse: [len, slots]
    hash,       \* Table.hash: HashMap<TableKey, LuaValue>, in iteration order
    shadow,     \* history: per key, the value of its last set, or None
    lastop,     \* history: the last table operation performed
    trav        \* a next()-traversal in progress, as its caller holds it

tableVars == <<array, hash, shadow, lastop, trav>>

VARIABLES
    heap,           \* the GCObjects: handle -> [marked, gctype, refs]
    gcstate,        \* g.gcstate
    gray,           \* g.gray: VecDeque<GCObject>
    allgc,          \* g.allgc
    finobj,         \* g.finobj
    tobefnz,        \* g.tobefnz
    g_sweep_list,   \* g.sweep_list
    current_white,  \* g.current_white
    registry,       \* g.registry: Option<GCObject>, 0 for None
    global_table,   \* g.global_table
    metatables,     \* g.metatables
    weak_tables,    \* g.weak_tables
    L_stack,        \* L.stack, the collectable values on it
    L_openupval,    \* L.openupval
    fullgc_log,     \* history: what luaC_fullgc, if it was the last call, kept and lost
    quiet_cycles,   \* history: luaC_step cycles ended since the mutator last acted
    barriered,      \* history: white objects stored into a black one under luaC_barrier in this cycle
    sweep_log       \* history: the objects allocated since Atomic, those sweep_list removed,
                    \* and those that were gray or black when the sweep began

gcVars == <<heap, gcstate, gray, allgc, finobj, tobefnz, g_sweep_list,
            current_white, registry, global_table, metatables, weak_tables,
            L_stack, L_openupval, fullgc_log, quiet_cycles, barriered,
            sweep_log>>

VARIABLES
    stack_values,   \* L.stack.values (slot idx is element idx + 1)
    stack_top,      \* L.stack.top
    status,         \* L.status
    callinfo,       \* L.callinfo, the chain of frames, most recent first
    tbclist,        \* L->tbclist, the slot of the last to-be-closed variable
    tbc_delta,      \* tbclist.delta of every slot
    pc,             \* where the thread is: "idle" or in the "body" of a protected call
    pcall_log,      \* history: the protected call that has just returned
    opened,         \* history: the levels given to luaF_newtbcupval, in order
    closed          \* history: the variables whose close method was called, in order

doVars == <<stack_values, stack_top, status, callinfo, tbclist, tbc_delta, pc,
            pcall_log, opened, closed>>

VARIABLES
    threads,        \* the threads: threads[1] is the main thread
    co_ret          \* the values returned by the last library call

coVars == <<threads, co_ret>>

VARIABLES
    nci,            \* L.nci of the running thread: the count of non-yieldable
                    \* calls in the upper 16 bits, of C calls in the lower
    yield_log       \* history: the last call of luaD_yield and its result

yVars == <<nci, yield_log>>

VARIABLES
    fin_bearing,    \* history: the objects luaC_checkfinalizer was called for
    fin_calls       \* history: the objects whose finalizer was invoked, in order

finVars == <<fin_bearing, fin_calls>>

VARIABLES
    GCdebt,         \* g.GCdebt
    mem_log         \* history: the last call of the allocator and its outcome

memVars == <<GCdebt, mem_log>>

VARIABLES
    vm_log          \* history: the last instruction dispatched and what came of it

vmVars == <<vm_log>>

VARIABLES
    values_len,     \* L.stack.values.len(), the extent of the value stack
    used_top,       \* L.stack.top, next to values_len
    ci_depth,       \* the length of the chain L.callinfo
    ci_log          \* history: the last operation on the chain, and whether it
                    \* allocated a CallInfo node

growVars == <<values_len, used_top, ci_depth, ci_log>>

VARIABLES
    up_open,        \* L->openupval: the open upvalues, by descending level
    up_closed       \* history: the upvalues closed by the last luaF_closeupval

upVars == <<up_open, up_closed>>

VARIABLES
    nsteps,         \* history: the calls of luaC_step made by the cycle test
    sweep_all_log   \* history: the white and the black objects of allgc before
                    \* the last sweep_list(&mut g.allgc, usize::MAX)

cycVars == <<nsteps, sweep_all_log>>

\* the variables of the subsystems added after the first four
VARIABLES
    DYNAMIC_METAMETHODS,  \* the registry: HashMap<String, usize>, name -> index
    mm_ret                \* history: what the last register_metamethod returned, 0 at first

mmVars == <<DYNAMIC_METAMETHODS, mm_ret>>

extVars == <<yVars, finVars, memVars, vmVars, growVars, upVars, cycVars, mmVars>>

vars == <<tableVars, gcVars, doVars, coVars, extVars>>

(***************************************************************************)
(* Values                                                                  *)
(***************************************************************************)

\* Option::None, for Option<LuaValue> and Option<(LuaValue, &LuaValue)>
None == [t |-> "None", n |-> 0]

LNil == [t |-> "Nil", n |-> 0]

LInt(i) == [t |-> "Int", n |-> i]

LStr(i) == [t |-> "Str", n |-> i]

LBool(i) == [t |-> "Bool", n |-> i]

LPointer(i) == [t |-> "Pointer", n |-> i]

\* TableKey::from_lua: every LuaValue variant without a TableKey variant of
\* its own (Nil among them) falls back to the null pointer key.
from_lua(val) ==
    CASE val.t = "Int"     -> [k |-> "Int",   n |-> val.n]
      [] val.t = "Float"   -> [k |-> "Float", n |-> val.n]
      [] val.t = "Str"     -> [k |-> "Str",   n |-> val.n]
      [] val.t = "Bool"    -> [k |-> "Bool",  n |-> val.n]
      [] val.t = "Pointer" -> [k |-> "Ptr",   n |-> val.n]
      [] val.t = "Object"  -> [k |-> "Obj",   n |-> val.n]
      [] OTHER             -> [k |-> "Ptr",   n |-> 0]

\* TableKey::to_lua
to_lua(key) ==
    CASE key.k = "Int"   -> [t |-> "Int",     n |-> key.n]
      [] key.k = "Float" -> [t |-> "Float",   n |-> key.n]
      [] key.k = "Str"   -> [t |-> "Str",     n |-> key.n]
      [] key.k = "Bool"  -> [t |-> "Bool",    n |-> key.n]
      [] key.k = "Ptr"   -> [t |-> "Pointer", n |-> key.n]
      [] OTHER           -> [t |-> "Object",  n |-> key.n]

(***************************************************************************)
(* Table engine (src/src/ltable.rs)                                        *)
(***************************************************************************)

MAX_ARRAY_SIZE == 16777216

\* Table::new
EmptyArray == [len |-> 0, slots |-> <<>>]

\* self.array[i - 1] of a sparse Vec<Option<LuaValue>> (i is 1-based)
ArrAt(a, i) == IF i \in DOMAIN a.slots THEN a.slots[i] ELSE None

\* self.array[i - 1] = Some(v)
ArrPut(a, i, v) ==
    [a EXCEPT !.slots = [j \in (DOMAIN a.slots) \cup {i} |->
                            IF j = i THEN v ELSE a.slots[j]]]

\* self.array[i - 1] = None
ArrClear(a, i) ==
    [a EXCEPT !.slots = [j \in (DOMAIN a.slots) \ {i} |-> a.slots[j]]]

\* position of a key in the hash part, 0 when absent
HashPos(h, key) ==
    IF \E p \in 1..Len(h) : h[p].key = key
    THEN CHOOSE p \in 1..Len(h) : h[p].key = key
    ELSE 0

\* HashMap::get
HashGet(h, key) == IF HashPos(h, key) = 0 THEN None ELSE h[HashPos(h, key)].val

\* HashMap::insert: an existing key keeps its place; a new key lands at the
\* place pos of the iteration order, which the hasher decides.
HashInsert(h, key, v, pos) ==
    IF HashPos(h, key) # 0
    THEN [h EXCEPT ![HashPos(h, key)].val = v]
    ELSE SubSeq(h, 1, pos - 1) \o <<[key |-> key, val |-> v]>> \o SubSeq(h, pos, Len(h))

\* HashMap::remove: the remaining entries keep their order
HashRemove(h, key) ==
    IF HashPos(h, key) = 0 THEN h
    ELSE SubSeq(h, 1, HashPos(h, key) - 1) \o SubSeq(h, HashPos(h, key) + 1, Len(h))

\* the guard shared by get, remove and contains_key
InArray(a, key) == key.t = "Int" /\ key.n > 0 /\ key.n <= a.len

\* Table::get
get(a, h, key) ==
    IF InArray(a, key) THEN ArrAt(a, key.n) ELSE HashGet(h, from_lua(key))

\* Table::set, the array part of the result
set_array(a, key, value) ==
    IF key.t = "Int" /\ key.n > 0
    THEN IF key.n - 1 < a.len THEN ArrPut(a, key.n, value)
         ELSE IF key.n - 1 < MAX_ARRAY_SIZE
              THEN ArrPut([a EXCEPT !.len = key.n], key.n, value)
              ELSE a
    ELSE a

\* a mutant of set_hash: the test of line 94 (index inside the array part)
\* left out, so that only the test against MAX_ARRAY_SIZE keeps a key out of
\* the hash part
set_hash_nolen(a, h, key, value, pos) ==
    IF key.t = "Int" /\ key.n > 0 /\ key.n - 1 < MAX_ARRAY_SIZE
    THEN h
    ELSE HashInsert(h, from_lua(key), value, pos)

\* Table::set, the hash part of the result
set_hash(a, h, key, value, pos) ==
    IF key.t = "Int" /\ key.n > 0
       /\ (key.n - 1 < a.len \/ key.n - 1 < MAX_ARRAY_SIZE)
    THEN h
    ELSE HashInsert(h, from_lua(key), value, pos)

\* Table::remove, the array part of the result
remove_array(a, key) == IF InArray(a, key) THEN ArrClear(a, key.n) ELSE a

\* Table::remove that leaves the hash part alone
remove_hash_keep(a, h, key) == h

\* Table::remove, the hash part of the result
remove_hash(a, h, key) == IF InArray(a, key) THEN h ELSE HashRemove(h, from_lua(key))

\* Table::contains_key
contains_key(a, h, key) == get(a, h, key) # None

\* Table::len: the index of the last Some in the array part
len(a) ==
    IF DOMAIN a.slots = {} THEN 0
    ELSE CHOOSE m \in DOMAIN a.slots : \A j \in DOMAIN a.slots : j <= m

\* Table::lua_len: the same loop as Table::len
lua_len(a) ==
    IF DOMAIN a.slots = {} THEN 0
    ELSE CHOOSE m \in DOMAIN a.slots : \A j \in DOMAIN a.slots : j <= m

\* Table::len_total
len_total(a, h) == Cardinality(DOMAIN a.slots) + Len(h)

\* the keys that pairs() yields: array indices holding Some, then hash keys
PresentKeys(a, h) ==
    {LInt(j) : j \in DOMAIN a.slots} \cup {to_lua(h[p].key) : p \in 1..Len(h)}

\* whether an entry collected by rehash is a positive integer key
IsPosInt(key) == to_lua(key).t = "Int" /\ key.n > 0

\* Table::rehash, lines 253-259: n is the largest positive integer key
rehash_n(a, h) ==
    LET ks == (DOMAIN a.slots) \cup
              {h[p].key.n : p \in {q \in 1..Len(h) : IsPosInt(h[q].key)}} \cup {0}
    IN CHOOSE m \in ks : \A j \in ks : j <= m

\* a mutant of rehash_array: the bound test of line 269 written i < n
rehash_array_lt(a, h) ==
    LET n == rehash_n(a, h)
        ks == ((DOMAIN a.slots) \cup
               {h[p].key.n : p \in {q \in 1..Len(h) : IsPosInt(h[q].key)}}) \ {n}
    IN [len |-> n,
        slots |-> [j \in ks |->
                     IF HashGet(h, from_lua(LInt(j))) # None
                     THEN HashGet(h, from_lua(LInt(j))) ELSE a.slots[j]]]

\* Table::rehash, lines 265-273: the new array part. The entries of the old
\* array part are collected first, those of the hash part after them, so a
\* hash entry written to the same slot is the one that stays.
rehash_array(a, h) ==
    LET n == rehash_n(a, h)
        ks == (DOMAIN a.slots) \cup
              {h[p].key.n : p \in {q \in 1..Len(h) : IsPosInt(h[q].key)}}
    IN [len |-> n,
        slots |-> [j \in ks |->
                     IF HashGet(h, from_lua(LInt(j))) # None
                     THEN HashGet(h, from_lua(LInt(j))) ELSE a.slots[j]]]

\* Table::rehash, line 271: the entries that go to the new hash part, each
\* key converted to_lua when collected and from_lua when inserted
rehash_rest(h) ==
    LET keep == SelectSeq(h, LAMBDA e : ~IsPosInt(e.key))
    IN [p \in 1..Len(keep) |->
          [key |-> from_lua(to_lua(keep[p].key)), val |-> keep[p].val]]

\* the iteration orders a fresh HashMap may give m entries
Orders(m) == {f \in [1..m -> 1..m] : \A x, y \in 1..m : x # y => f[x] # f[y]}

\* ascending sequence of a finite set of integers
RECURSIVE Ascending(_)
Ascending(S) ==
    IF S = {} THEN <<>>
    ELSE LET m == CHOOSE x \in S : \A y \in S : x <= y
         IN <<m>> \o Ascending(S \ {m})

\* Table::next, lines 129-137: the loop over the array part from index idx.
\* Slots holding None leave the loop's state alone, so only the indices
\* holding Some are walked.
RECURSIVE ScanArray(_, _)
ScanArray(idxs, started) ==
    IF idxs = <<>> THEN None
    ELSE IF started THEN LInt(Head(idxs))
    ELSE ScanArray(Tail(idxs), TRUE)

\* v.is_some() of line 142, on a value stored in the hash part
is_some(v) == v # None

\* Table::next, lines 139-148: the loop over the hash part
RECURSIVE ScanHash(_, _, _)
ScanHash(h, found, last_key) ==
    IF h = <<>> THEN None
    ELSE LET k_lua == to_lua(Head(h).key)
         IN IF found /\ is_some(Head(h).val) THEN k_lua
            ELSE ScanHash(Tail(h),
                          found \/ (last_key # None /\ k_lua = last_key),
                          last_key)

\* Table::next: the key of the pair returned, or None
next(a, h, last_key) ==
    LET started == (last_key = None)
        idx == IF last_key.t = "Int" /\ last_key.n > 0 THEN last_key.n ELSE 0
        r == ScanArray(Ascending({j \in DOMAIN a.slots : j > idx}), started)
    IN IF r # None THEN r ELSE ScanHash(h, last_key = None, last_key)

(***************************************************************************)
(* Table engine: operations                                                *)
(***************************************************************************)

MaxIntKey == 2

\* keys used by the callers: small positive integers, a non-positive
\* integer, the first integer past MAX_ARRAY_SIZE, and a string
IntKeys == {LInt(i) : i \in 1..MaxIntKey}

OtherKeys == {LInt(0), LInt(MAX_ARRAY_SIZE + 1), LStr(1)}

Keys == IntKeys \cup OtherKeys

\* keys of the length runs: 1..MaxLenKey and the two integers around
\* MAX_ARRAY_SIZE
MaxLenKey == 3

LenKeys ==
    {LInt(i) : i \in 1..MaxLenKey} \cup {LInt(MAX_ARRAY_SIZE), LInt(MAX_ARRAY_SIZE + 1)}

Values == {LInt(10), LInt(20)}

\* the key of test_table_rehash that lies far from the others
FarKey == 100

\* history value of a key that was set and then removed
Removed == [t |-> "Removed", n |-> 0]

NoTraversal ==
    [active |-> FALSE, last |-> None, seen |-> <<>>, done |-> FALSE,
     start |-> {}, removed |-> {}]

InitTableVars ==
    /\ array = EmptyArray
    /\ hash = <<>>
    /\ shadow = [k \in Keys \cup LenKeys \cup {LNil, LInt(FarKey)} |-> None]
    /\ lastop = "new"
    /\ trav = NoTraversal

\* t.set(&key, value)
Set(key, value) ==
    /\ ~trav.active
    /\ \E pos \in 1..(Len(hash) + 1) :
          /\ array' = set_array(array, key, value)
          /\ hash' = set_hash(array, hash, key, value, pos)
    /\ shadow' = [shadow EXCEPT ![key] = value]
    /\ lastop' = "set"
    /\ UNCHANGED <<trav, gcVars, doVars, coVars, extVars>>

\* t.remove(&key)
Remove(key) ==
    /\ array' = remove_array(array, key)
    /\ hash' = remove_hash(array, hash, key)
    /\ shadow' = [shadow EXCEPT ![key] = IF @ = None THEN None ELSE Removed]
    /\ lastop' = "remove"
    /\ trav' = IF trav.active
               THEN [trav EXCEPT !.removed = @ \cup {key}]
               ELSE trav
    /\ UNCHANGED <<gcVars, doVars, coVars, extVars>>

\* t.rehash()
Rehash ==
    /\ ~trav.active
    /\ \E ord \in Orders(Len(rehash_rest(hash))) :
          hash' = [p \in 1..Len(rehash_rest(hash)) |-> rehash_rest(hash)[ord[p]]]
    /\ array' = rehash_array(array, hash)
    /\ lastop' = "rehash"
    /\ UNCHANGED <<shadow, trav, gcVars, doVars, coVars, extVars>>

NextTable ==
    \/ \E key \in Keys, value \in Values : Set(key, value)
    \/ \E key \in Keys : Remove(key)
    \/ Rehash

\* C3: after any sequence of set and remove calls followed by rehash, get(k)
\* returns the value of the last set of k for every key whose last operation
\* was a set, and None for every key whose last operation was a remove (or
\* that was never set).  Keys are the valid (non-nil) keys.
C3_RoundTrip ==
    lastop = "rehash" =>
        \A k \in Keys :
            get(array, hash, k) = IF shadow[k] = Removed THEN None ELSE shadow[k]

\* C3 witness: a rehash has moved the key past MAX_ARRAY_SIZE from the hash
\* part to the array part, a string key stayed in the hash part, one key was
\* overwritten and another one removed.
C3_Witness ==
    /\ lastop = "rehash"
    /\ array.len = MAX_ARRAY_SIZE + 1
    /\ shadow[LInt(MAX_ARRAY_SIZE + 1)] = LInt(20)
    /\ shadow[LStr(1)] = LInt(10)
    /\ shadow[LInt(1)] = Removed
    /\ shadow[LInt(2)] = LInt(20)

(***************************************************************************)
(* Table engine: traversal with next()                                     *)
(***************************************************************************)

\* the caller starts a traversal: let mut last = None
TravStart ==
    /\ ~trav.active
    /\ trav' = [active |-> TRUE, last |-> None, seen |-> <<>>, done |-> FALSE,
                start |-> PresentKeys(array, hash), removed |-> {}]
    /\ UNCHANGED <<array, hash, shadow, lastop, gcVars, doVars, coVars,
                     extVars>>

\* while let Some((k, v)) = t.next(last.as_ref()) { ...; last = Some(k); }
TravNext ==
    /\ trav.active /\ ~trav.done
    /\ LET r == next(array, hash, trav.last)
       IN trav' = IF r = None
                  THEN [trav EXCEPT !.done = TRUE]
                  ELSE [trav EXCEPT !.seen = Append(@, r), !.last = r]
    /\ UNCHANGED <<array, hash, shadow, lastop, gcVars, doVars, coVars,
                     extVars>>

\* the caller drops the finished traversal
TravEnd ==
    /\ trav.active /\ trav.done
    /\ trav' = NoTraversal
    /\ UNCHANGED <<array, hash, shadow, lastop, gcVars, doVars, coVars,
                     extVars>>

NextNext ==
    \/ \E key \in Keys : Set(key, LInt(10))
    \/ \E key \in Keys : Remove(key)
    \/ TravStart
    \/ TravNext
    \/ TravEnd


\* number of times key k was returned by the traversal
Times(k) == Cardinality({p \in 1..Len(trav.seen) : trav.seen[p] = k})

\* C4: a traversal from next(None), each returned key passed back as
\* last_key, with no mutation in between, returns every key present in the
\* table exactly once and then returns None.
C4_NextVisitsAll ==
    (trav.done /\ trav.removed = {}) =>
        /\ \A k \in PresentKeys(array, hash) : Times(k) = 1
        /\ Len(trav.seen) = len_total(array, hash)

\* C5: when keys are removed while a traversal is in progress, the traversal
\* returns exactly once every key that was present when it started and has
\* not been removed.  Stated for tables whose array part holds nothing, where
\* the traversal walks the hash part alone.
C5_NextUnderRemoval ==
    (trav.done /\ trav.removed # {} /\ \A k \in trav.start : ~InArray(array, k)) =>
        \A k \in trav.start \ trav.removed : Times(k) = 1

(***************************************************************************)
(* Table engine: the effect of remove                                      *)
(***************************************************************************)

\* what a step t.remove(&k) leaves behind
RemoveEffect(k) ==
    /\ get(array', hash', k) = None
    /\ ~contains_key(array', hash', k)
    /\ \A j \in Keys \ {k} : get(array', hash', j) = get(array, hash, j)
    /\ ~contains_key(array, hash, k) =>
          /\ len_total(array', hash') = len_total(array, hash)
          /\ array' = array
          /\ hash' = hash

\* C25: remove(k) makes get(k) return None and contains_key(k) false and
\* leaves the value of every other key unchanged; removing a key that is
\* not present changes nothing (len_total is unchanged).
C25_RemoveFrame == [][\A k \in Keys : Remove(k) => RemoveEffect(k)]_vars

\* C25 witness: key 1 of the array part was set and removed and reads None,
\* the string key of the hash part set before it still reads its value.
C25_Witness ==
    /\ lastop = "remove"
    /\ shadow[LInt(1)] = Removed
    /\ get(array, hash, LInt(1)) = None
    /\ shadow[LStr(1)] = LInt(10)
    /\ get(array, hash, LStr(1)) = LInt(10)
    /\ shadow[LInt(MAX_ARRAY_SIZE + 1)] = Removed
    /\ get(array, hash, LInt(MAX_ARRAY_SIZE + 1)) = None

(***************************************************************************)
(* Table engine: what rehash makes of the array part                       *)
(***************************************************************************)

\* the keys of these runs: those of test_table_rehash
RehashKeys == {LInt(1), LInt(2), LInt(FarKey)}

NextRehash ==
    \/ \E key \in RehashKeys, value \in Values : Set(key, value)
    \/ \E key \in RehashKeys : Remove(key)
    \/ Rehash

\* the powers of two up to the first one past FarKey
Pow2 == {1, 2, 4, 8, 16, 32, 64, 128}

\* the slots among 1..n that hold a value
UsedUpTo(n) == {i \in 1..n : get(array, hash, LInt(i)) # None}

\* the largest power of two n with more than half of 1..n holding values,
\* or 0
HalfFullSize ==
    LET ok == {n \in Pow2 : 2 * Cardinality(UsedUpTo(n)) > n} \cup {0}
    IN CHOOSE m \in ok : \A j \in ok : j <= m

\* C33: rehash sizes the array part to the largest power of two n such that
\* more than half of the slots 1..n hold values, and integer keys beyond n
\* are in the hash part; for a table holding keys 1, 2 and 100, lua_len()
\* after rehash is 2.
C33_RehashHalfFull ==
    lastop = "rehash" =>
        /\ array.len = HalfFullSize
        /\ \A k \in RehashKeys :
              (k.n > HalfFullSize /\ get(array, hash, k) # None)
                  => HashGet(hash, from_lua(k)) # None
        /\ (\A k \in RehashKeys : get(array, hash, k) # None)
              => lua_len(array) = 2

\* C36: rehash does not change the length of a table: for any contents,
\* len() right before rehash() equals len() right after it.
C36_RehashKeepsLen ==
    [][Rehash => len(array') = len(array)]_vars

(***************************************************************************)
(* Table engine: nil as a key                                              *)
(***************************************************************************)

\* the keys of these runs: nil, and keys of the array and of the hash part
NilKeys == {LNil, LInt(1), LStr(1)}

NextNil ==
    \/ \E key \in NilKeys, value \in Values : Set(key, value)
    \/ \E key \in NilKeys : Remove(key)
    \/ TravStart
    \/ TravNext
    \/ TravEnd

\* C24: no table holds an entry whose key is nil: after any sequence of
\* operations, set with a nil key among them, the hash part has no entry
\* under the key nil converts to, a traversal returns no key derived from
\* nil, and get with a nil key returns None.
C24_NoNilKey ==
    /\ \A p \in 1..Len(hash) : hash[p].key # from_lua(LNil)
    /\ \A p \in 1..Len(trav.seen) : trav.seen[p] # to_lua(from_lua(LNil))
    /\ get(array, hash, LNil) = None

(***************************************************************************)
(* Table engine: length                                                    *)
(***************************************************************************)

NextLen ==
    \/ \E key \in LenKeys, value \in Values : Set(key, value)
    \/ \E key \in LenKeys : Remove(key)

\* C12: after any sequence of set and remove calls, len() is a border: it is
\* 0 or get(len()) is not nil, and get(len() + 1) is nil.
C12_LenIsBorder ==
    /\ len(array) = 0 \/ get(array, hash, LInt(len(array))) # None
    /\ get(array, hash, LInt(len(array) + 1)) = None

\* Table::get_or_insert_with, lines 365-379: the array part of the result. A
\* slot inside the array is written only when it is empty; an index below
\* MAX_ARRAY_SIZE resizes the array.
get_or_insert_with_array(a, key, value) ==
    IF key.t = "Int" /\ key.n > 0
    THEN IF key.n - 1 < a.len
         THEN IF ArrAt(a, key.n) = None THEN ArrPut(a, key.n, value) ELSE a
         ELSE IF key.n - 1 < MAX_ARRAY_SIZE
              THEN ArrPut([a EXCEPT !.len = key.n], key.n, value)
              ELSE a
    ELSE a

\* Table::get_or_insert_with, lines 380-382: the hash part of the result,
\* hash.entry(k).or_insert_with(default)
get_or_insert_with_hash(a, h, key, value, pos) ==
    IF key.t = "Int" /\ key.n > 0
       /\ (key.n - 1 < a.len \/ key.n - 1 < MAX_ARRAY_SIZE)
    THEN h
    ELSE IF HashPos(h, from_lua(key)) # 0
         THEN h
         ELSE HashInsert(h, from_lua(key), value, pos)

\* t.get_or_insert_with(key, || value)
GetOrInsertWith(key, value) ==
    /\ ~trav.active
    /\ \E pos \in 1..(Len(hash) + 1) :
          /\ array' = get_or_insert_with_array(array, key, value)
          /\ hash' = get_or_insert_with_hash(array, hash, key, value, pos)
    /\ shadow' = [shadow EXCEPT ![key] =
                    IF get(array, hash, key) = None THEN value ELSE @]
    /\ lastop' = "get_or_insert_with"
    /\ UNCHANGED <<trav, gcVars, doVars, coVars, extVars>>

\* t.clear(), lines 153-156: both parts are emptied
Clear ==
    /\ ~trav.active
    /\ array' = EmptyArray
    /\ hash' = <<>>
    /\ shadow' = [k \in DOMAIN shadow |->
                    IF shadow[k] = None THEN None ELSE Removed]
    /\ lastop' = "clear"
    /\ UNCHANGED <<trav, gcVars, doVars, coVars, extVars>>

NextParts ==
    \/ \E key \in Keys, value \in Values : Set(key, value)
    \/ \E key \in Keys : Remove(key)
    \/ \E key \in Keys, value \in Values : GetOrInsertWith(key, value)
    \/ Clear
    \/ Rehash

\* C13: after any sequence of set, remove, get_or_insert_with, clear and
\* rehash, no integer key k with 1 <= k <= len(array) is stored in the hash
\* part, and the array part holds only such keys: every stored key of that
\* range is in the array part, every other stored key in the hash part.
C13_PartsDisjoint ==
    /\ \A p \in 1..Len(hash) :
          ~(hash[p].key.k = "Int" /\ hash[p].key.n >= 1 /\ hash[p].key.n <= array.len)
    /\ DOMAIN array.slots \subseteq 1..array.len
    /\ \A k \in Keys :
          get(array, hash, k) # None =>
             IF InArray(array, k)
             THEN ArrAt(array, k.n) # None /\ HashGet(hash, from_lua(k)) = None
             ELSE HashGet(hash, from_lua(k)) # None
                  /\ ~(k.t = "Int" /\ k.n \in DOMAIN array.slots)

\* C13 witness: get_or_insert_with has just put the integer key past
\* MAX_ARRAY_SIZE into the hash part, next to a string key and key 0, while
\* the integer keys 1..MaxIntKey sit in the array part.
C13_Witness ==
    /\ lastop = "get_or_insert_with"
    /\ array.len = MaxIntKey
    /\ \A i \in 1..MaxIntKey : ArrAt(array, i) # None
    /\ HashGet(hash, from_lua(LInt(MAX_ARRAY_SIZE + 1))) # None
    /\ HashGet(hash, from_lua(LInt(0))) # None
    /\ HashGet(hash, from_lua(LStr(1))) # None

(***************************************************************************)
(* Collector (lgc.rs)                                                      *)
(*                                                                         *)
(* A GCObject is a heap object with an identity: heap[o] holds its fields  *)
(* and every list, queue and root of the collector holds handles o.  A     *)
(* clone() of an object is a copy of the handle, a clone() of a list is a  *)
(* new list of the same handles.                                           *)
(***************************************************************************)

GCSWEEPMAX == 20

BLACKBIT == 1

WHITE0BIT == 2

WHITE1BIT == 4

WHITEBITS == WHITE0BIT + WHITE1BIT

MASKCOLORS == BLACKBIT + WHITEBITS

\* usize::MAX, cut down to the integers of the model checker
USIZE_MAX == 2147483647

\* o.marked & !MASKCOLORS: the colour bits are the low bits of the byte
ClearColors(m) == m - (m % (MASKCOLORS + 1))

makewhite(m) == ClearColors(m) + WHITE0BIT

set2gray(m) == ClearColors(m)

set2black(m) == ClearColors(m) + BLACKBIT

iswhite(m) == (m % (MASKCOLORS + 1)) \div WHITE0BIT # 0

isblack(m) == m % (BLACKBIT + 1) = BLACKBIT

isgray(m) == ~iswhite(m) /\ ~isblack(m)

\* GCObject::default()
DefaultObject(ty) == [marked |-> WHITE0BIT, gctype |-> ty, refs |-> <<>>]

Range(q) == {q[p] : p \in 1..Len(q)}

\* o.clone() of a GCObject: the type is declared in no source file; an
\* object is a heap object with an identity, and its clone is the same object
clone(o) == o

\* list.clone() of a VecDeque<GCObject>: a new list of the clones
clone_list(list) == [p \in 1..Len(list) |-> clone(list[p])]

\* mark_object on the collector state st = [heap, gray]
mark_object(st, o) ==
    IF iswhite(st.heap[o].marked)
    THEN [heap |-> [st.heap EXCEPT ![o].marked = set2gray(@)],
          gray |-> Append(st.gray, clone(o))]
    ELSE st

\* mark_value: only these kinds of TValue are marked
mark_value(st, v) ==
    IF st.heap[v].gctype \in {"Table", "String", "LClosure", "CClosure", "UserData"}
    THEN mark_object(st, v)
    ELSE st

\* for x in list { mark_object(g, x) }
RECURSIVE mark_objects(_, _)
mark_objects(st, list) ==
    IF list = <<>> THEN st
    ELSE mark_objects(mark_object(st, Head(list)), Tail(list))

\* for val in list { mark_value(g, val) }
RECURSIVE mark_values(_, _)
mark_values(st, list) ==
    IF list = <<>> THEN st
    ELSE mark_values(mark_value(st, Head(list)), Tail(list))

\* an Option<GCObject> as the list of what it holds
OptList(o) == IF o = 0 THEN <<>> ELSE <<o>>

mark_roots(st, gt, reg, stk, upv) ==
    LET s1 == mark_objects(st, OptList(gt))
        s2 == mark_objects(s1, OptList(reg))
        s3 == mark_values(s2, stk)
    IN mark_objects(s3, upv)

\* propagate_mark that blackens o and follows none of its references
propagate_mark_leaf(st, o) == [st EXCEPT !.heap[o].marked = set2black(@)]

\* propagate_mark(g, o), o already popped from the gray queue
propagate_mark(st, o) ==
    LET b == [st EXCEPT !.heap[o].marked = set2black(@)]
    IN CASE b.heap[o].gctype = "Table" -> mark_values(b, b.heap[o].refs)
         [] b.heap[o].gctype \in {"LClosure", "CClosure", "UserData"} ->
                mark_objects(b, b.heap[o].refs)
         [] OTHER -> b

\* a marking loop that stops after the first object of the queue
propagate_all_once(st) ==
    IF st.gray = <<>> THEN st
    ELSE propagate_mark([st EXCEPT !.gray = Tail(@)], Head(st.gray))

\* while !g.gray.is_empty() { propagate_mark(g, g.gray.pop_front()) }
RECURSIVE propagate_all(_)
propagate_all(st) ==
    IF st.gray = <<>> THEN st
    ELSE propagate_all(propagate_mark([st EXCEPT !.gray = Tail(@)], Head(st.gray)))

\* atomic(L): st carries current_white as well
atomic(st, mts, wts) ==
    LET s1 == mark_objects(st, mts)
    IN mark_objects(s1, wts)

flip_white(cw) == IF cw = WHITE0BIT THEN WHITE1BIT ELSE WHITE0BIT

RemoveAt(q, i) == SubSeq(q, 1, i - 1) \o SubSeq(q, i + 1, Len(q))

\* sweep_list(list, max) from position i (1-based) with swept removals so far;
\* the result is the heap and the list when the loop ends
RECURSIVE sweep_loop(_, _, _, _, _)
sweep_loop(h, list, max, i, swept) ==
    IF i <= Len(list) /\ swept < max
    THEN IF iswhite(h[list[i]].marked)
         THEN sweep_loop(h, RemoveAt(list, i), max, i, swept + 1)
         ELSE sweep_loop([h EXCEPT ![list[i]].marked = makewhite(@)],
                         list, max, i + 1, swept)
    ELSE [heap |-> h, list |-> list]

sweep_list(h, list, max) == sweep_loop(h, list, max, 1, 0)

\* what can be reached from the set S of objects by following references
RECURSIVE Reach(_, _)
Reach(h, S) ==
    LET T == S \cup UNION {Range(h[o].refs) : o \in S}
    IN IF T = S THEN S ELSE Reach(h, T)

\* the roots: registry, global table, per-type metatables, the stack and
\* the open upvalues of the main thread
Roots ==
    Range(OptList(registry)) \cup Range(OptList(global_table))
        \cup Range(metatables) \cup Range(L_stack) \cup Range(L_openupval)

Reachable == Reach(heap, Roots)

\* bounds of the collector runs
MaxObjs == 2

MaxStack == 2

MaxRefs == 1

MaxCycles == 2

GCTypes == {"Table", "String"}

NoSweep == [born |-> {}, swept |-> {}, live |-> {}]

\* the states of luaC_step after Atomic and before Pause
SweepStates == {"SweepAllGC", "SweepFinObj", "SweepToBeFNZ", "SweepEnd"}

NoFullGC == [ran |-> FALSE, kept |-> {}, lost |-> {}, barriered_lost |-> {}]

InitGCVars ==
    /\ heap = <<>>
    /\ gcstate = "Pause"
    /\ gray = <<>>
    /\ allgc = <<>>
    /\ finobj = <<>>
    /\ tobefnz = <<>>
    /\ g_sweep_list = <<>>
    /\ current_white = WHITE0BIT
    /\ registry = 0
    /\ global_table = 0
    /\ metatables = <<>>
    /\ weak_tables = <<>>
    /\ L_stack = <<>>
    /\ L_openupval = <<>>
    /\ fullgc_log = NoFullGC
    /\ quiet_cycles = 0
    /\ barriered = {}
    /\ sweep_log = NoSweep

\* a mutant of NewObj: the list being swept is g.allgc itself and not the
\* copy taken at line 109, so an object pushed on allgc during SweepAllGC is
\* on the list that sweep_list goes through
NewObj_shared(ty) ==
    /\ Len(heap) < MaxObjs
    /\ Len(L_stack) < MaxStack
    /\ heap' = Append(heap, DefaultObject(ty))
    /\ allgc' = Append(allgc, Len(heap) + 1)
    /\ g_sweep_list' = IF gcstate = "SweepAllGC"
                       THEN Append(g_sweep_list, Len(heap) + 1)
                       ELSE g_sweep_list
    /\ L_stack' = Append(L_stack, Len(heap) + 1)
    /\ quiet_cycles' = 0
    /\ UNCHANGED barriered
    /\ sweep_log' = IF gcstate \in SweepStates
                    THEN [sweep_log EXCEPT !.born = @ \cup {Len(heap) + 1}]
                    ELSE sweep_log
    /\ fullgc_log' = NoFullGC
    /\ UNCHANGED <<gcstate, gray, finobj, tobefnz, current_white,
                   registry, global_table, metatables, weak_tables,
                   L_openupval, tableVars, doVars, coVars, extVars>>

\* the mutator creates an object: GCObject::default(), g.allgc.push_back,
\* and keeps it on its stack
NewObj(ty) ==
    /\ Len(heap) < MaxObjs
    /\ Len(L_stack) < MaxStack
    /\ heap' = Append(heap, DefaultObject(ty))
    /\ allgc' = Append(allgc, Len(heap) + 1)
    /\ L_stack' = Append(L_stack, Len(heap) + 1)
    /\ quiet_cycles' = 0
    /\ UNCHANGED barriered
    /\ sweep_log' = IF gcstate \in SweepStates
                    THEN [sweep_log EXCEPT !.born = @ \cup {Len(heap) + 1}]
                    ELSE sweep_log
    /\ fullgc_log' = NoFullGC
    /\ UNCHANGED <<gcstate, gray, finobj, tobefnz, g_sweep_list, current_white,
                   registry, global_table, metatables, weak_tables,
                   L_openupval, tableVars, doVars, coVars, extVars>>

\* the mutator pops its stack
PopStack ==
    /\ L_stack # <<>>
    /\ L_stack' = SubSeq(L_stack, 1, Len(L_stack) - 1)
    /\ quiet_cycles' = 0
    /\ UNCHANGED <<barriered, sweep_log>>
    /\ fullgc_log' = NoFullGC
    /\ UNCHANGED <<heap, gcstate, gray, allgc, finobj, tobefnz, g_sweep_list,
                   current_white, registry, global_table, metatables,
                   weak_tables, L_openupval, tableVars, doVars, coVars,
                                    extVars>>

\* the mutator stores the object at stack slot j into the table at stack
\* slot i (Table::set): no collector function is called
TableSet(i, j) ==
    /\ i \in 1..Len(L_stack) /\ j \in 1..Len(L_stack)
    /\ heap[L_stack[i]].gctype = "Table"
    /\ Len(heap[L_stack[i]].refs) < MaxRefs
    /\ L_stack[j] \notin Range(heap[L_stack[i]].refs)
    /\ heap' = [heap EXCEPT ![L_stack[i]].refs = Append(@, L_stack[j])]
    /\ quiet_cycles' = 0
    /\ UNCHANGED <<barriered, sweep_log>>
    /\ fullgc_log' = NoFullGC
    /\ UNCHANGED <<gcstate, gray, allgc, finobj, tobefnz, g_sweep_list,
                   current_white, registry, global_table, metatables,
                   weak_tables, L_stack, L_openupval,
                   tableVars, doVars, coVars, extVars>>

\* luaC_barrier(L, o, v) for a table o on the stack and a value v it holds
luaC_barrier(o, v) ==
    /\ o \in Range(L_stack)
    /\ v \in Range(heap[o].refs)
    /\ heap' = IF isblack(heap[o].marked) /\ iswhite(heap[v].marked)
               THEN [heap EXCEPT ![o].marked = set2gray(@)]
               ELSE heap
    /\ quiet_cycles' = 0
    /\ barriered' = IF isblack(heap[o].marked) /\ iswhite(heap[v].marked)
                    THEN barriered \cup {v}
                    ELSE barriered
    /\ UNCHANGED sweep_log
    /\ fullgc_log' = NoFullGC
    /\ UNCHANGED <<gcstate, gray, allgc, finobj, tobefnz, g_sweep_list,
                   current_white, registry, global_table, metatables,
                   weak_tables, L_stack, L_openupval,
                   tableVars, doVars, coVars, extVars>>

\* objects of allgc that no root reaches
Garbage == Range(allgc) \ Reachable

\* a sweep arm that goes from SweepAllGC past SweepFinObj
sweep_done_skip(p) ==
    CASE p = "SweepAllGC" -> "SweepToBeFNZ"
      [] p = "SweepFinObj" -> "SweepToBeFNZ"
      [] OTHER -> "SweepEnd"

\* luaC_step, the sweep arms: the phase entered when sweep_list reports done
sweep_done(p) ==
    CASE p = "SweepAllGC" -> "SweepFinObj"
      [] p = "SweepFinObj" -> "SweepToBeFNZ"
      [] OTHER -> "SweepEnd"

\* luaC_step(L): what it does to the collector
luaC_step_gc ==
    /\ CASE gcstate = "Pause" ->
              LET st == mark_roots([heap |-> heap, gray |-> <<>>],
                                   global_table, registry, L_stack, L_openupval)
              IN /\ gcstate' = "Propagate"
                 /\ heap' = st.heap
                 /\ gray' = st.gray
                 /\ UNCHANGED <<g_sweep_list, current_white>>
         [] gcstate = "Propagate" ->
              IF gray # <<>>
              THEN LET st == propagate_mark([heap |-> heap, gray |-> Tail(gray)],
                                            Head(gray))
                   IN /\ heap' = st.heap
                      /\ gray' = st.gray
                      /\ UNCHANGED <<gcstate, g_sweep_list, current_white>>
              ELSE /\ gcstate' = "Atomic"
                   /\ UNCHANGED <<heap, gray, g_sweep_list, current_white>>
         [] gcstate = "Atomic" ->
              LET st == atomic([heap |-> heap, gray |-> gray],
                               metatables, weak_tables)
              IN /\ heap' = st.heap
                 /\ gray' = st.gray
                 /\ current_white' = flip_white(current_white)
                 /\ gcstate' = "SweepAllGC"
                 /\ g_sweep_list' = clone_list(allgc)
         [] gcstate \in {"SweepAllGC", "SweepFinObj", "SweepToBeFNZ"} ->
              LET r == sweep_list(heap, g_sweep_list, GCSWEEPMAX)
                  done == r.list = <<>>
              IN /\ heap' = r.heap
                 /\ gcstate' = IF ~done THEN gcstate ELSE sweep_done(gcstate)
                 /\ g_sweep_list' =
                        IF ~done THEN r.list
                        ELSE CASE gcstate = "SweepAllGC" -> clone_list(finobj)
                               [] gcstate = "SweepFinObj" -> clone_list(tobefnz)
                               [] OTHER -> r.list
                 /\ UNCHANGED <<gray, current_white>>
         [] OTHER ->
              /\ gcstate' = "Pause"
              /\ UNCHANGED <<heap, gray, g_sweep_list, current_white>>
    /\ quiet_cycles' = IF gcstate = "SweepEnd" /\ quiet_cycles < MaxCycles
                       THEN quiet_cycles + 1
                       ELSE quiet_cycles
    /\ barriered' = IF gcstate = "SweepEnd" THEN {} ELSE barriered
    /\ sweep_log' =
          CASE gcstate \in {"SweepAllGC", "SweepFinObj", "SweepToBeFNZ"} ->
                  [sweep_log EXCEPT !.swept = @ \cup
                      (Range(g_sweep_list) \
                       Range(sweep_list(heap, g_sweep_list, GCSWEEPMAX).list))]
            [] gcstate = "Atomic" ->
                  [sweep_log EXCEPT !.live =
                      {o \in Range(allgc) :
                          ~iswhite(atomic([heap |-> heap, gray |-> gray],
                                          metatables, weak_tables).heap[o].marked)}]
            [] gcstate \in {"SweepEnd", "CallFin"} -> NoSweep
            [] OTHER -> sweep_log
    /\ fullgc_log' = NoFullGC
    /\ UNCHANGED <<allgc, finobj, tobefnz, registry, global_table, metatables,
                   weak_tables, L_stack, L_openupval>>

\* luaC_step(L)
luaC_step ==
    /\ luaC_step_gc
    /\ UNCHANGED <<tableVars, doVars, coVars, extVars>>

\* luaC_fullgc(L, _isemergency): the collector when it returns
FullGC ==
    LET s1 == mark_roots([heap |-> heap, gray |-> gray],
                         global_table, registry, L_stack, L_openupval)
        s2 == propagate_all(s1)
        s3 == atomic(s2, metatables, weak_tables)
        r1 == sweep_list(s3.heap, allgc, USIZE_MAX)
        r2 == sweep_list(r1.heap, finobj, USIZE_MAX)
        r3 == sweep_list(r2.heap, tobefnz, USIZE_MAX)
    IN [heap |-> r3.heap, gray |-> s3.gray,
        current_white |-> flip_white(current_white),
        allgc |-> r1.list, finobj |-> r2.list, tobefnz |-> r3.list]

\* history of a full collection: the reachable objects it kept and lost
FullGCLog ==
    LET before == Range(allgc) \cup Range(finobj) \cup Range(tobefnz)
        after == Range(FullGC.allgc) \cup Range(FullGC.finobj)
                 \cup Range(FullGC.tobefnz)
    IN [ran |-> TRUE,
        kept |-> (Reachable \cap before) \cap after,
        lost |-> (Reachable \cap before) \ after,
        barriered_lost |-> ((barriered \cap Reachable) \cap before) \ after]

\* luaC_fullgc(L, _isemergency): what it does to the collector
luaC_fullgc_gc ==
    /\ heap' = FullGC.heap
    /\ gray' = FullGC.gray
    /\ current_white' = FullGC.current_white
    /\ allgc' = FullGC.allgc
    /\ finobj' = FullGC.finobj
    /\ tobefnz' = FullGC.tobefnz
    /\ gcstate' = "Pause"
    /\ fullgc_log' = FullGCLog
    /\ barriered' = {}
    /\ sweep_log' = NoSweep
    /\ UNCHANGED <<g_sweep_list, registry, global_table, metatables,
                   weak_tables, L_stack, L_openupval, quiet_cycles>>

\* luaC_fullgc(L, _isemergency)
luaC_fullgc ==
    /\ luaC_fullgc_gc
    /\ UNCHANGED <<tableVars, doVars, coVars, extVars>>

NextGC ==
    \/ \E ty \in GCTypes : NewObj(ty)
    \/ PopStack
    \/ \E i, j \in 1..MaxStack : TableSet(i, j)
    \/ \E o, v \in 1..MaxObjs : luaC_barrier(o, v)
    \/ luaC_step
    \/ luaC_fullgc

\* C1: a full collection removes no object that was reachable from the roots
\* (registry, global table, metatables, stack, open upvalues) when it
\* started: every such object is on its list when luaC_fullgc returns.
C1_FullGCSafety ==
    fullgc_log.ran => fullgc_log.lost = {}

\* C2: between collector steps no black object references a white object,
\* whatever the mutator stored into an already black object.
C2_NoBlackToWhite ==
    \A o \in 1..Len(heap) :
        isblack(heap[o].marked) =>
            \A v \in Range(heap[o].refs) : ~iswhite(heap[v].marked)

\* C10: an object on allgc that no root reaches and that the mutator does not
\* reference again is removed from allgc by repeated calls of luaC_step: it
\* is gone once MaxCycles collection cycles have ended with no action of the
\* mutator in between.
C10_StepCollectsGarbage ==
    quiet_cycles >= MaxCycles => Garbage = {}

\* C11: a white object stored into a black object with luaC_barrier applied
\* to the store, and still reachable, is not swept before the cycle ends: a
\* full collection in that cycle leaves it on its list.
C11_BarrieredObjectSurvives ==
    fullgc_log.ran => fullgc_log.barriered_lost = {}

\* C29: after luaC_barrier(o, v) with o black and v white, o is gray and is
\* on the gray queue, so that a later step in Propagate traverses o again.
C29_BarrierQueues ==
    [][\A o, v \in 1..MaxObjs :
          (luaC_barrier(o, v) /\ isblack(heap[o].marked)
                              /\ iswhite(heap[v].marked))
              => (isgray(heap'[o].marked) /\ o \in Range(gray'))]_vars

\* the runs of the full collection claim: luaC_fullgc between the steps of
\* the collector and the allocations, pops and stores (into the table at the
\* bottom of the stack) of the mutator
NextFull ==
    \/ \E ty \in GCTypes : NewObj(ty)
    \/ PopStack
    \/ \E j \in 1..MaxStack : TableSet(1, j)
    \/ luaC_step
    \/ luaC_fullgc

\* C30: luaC_fullgc, called in any phase, runs marking and every sweep to
\* the end before it returns: the collector is in Pause, the gray queue is
\* empty, and every object left on allgc, finobj and tobefnz was visited by
\* its sweep (it is white again; none is gray or black).
C30_FullGCCompletes ==
    fullgc_log.ran =>
        /\ gcstate = "Pause"
        /\ gray = <<>>
        /\ \A o \in Range(allgc) \cup Range(finobj) \cup Range(tobefnz) :
              iswhite(heap[o].marked)

\* C30 witness: luaC_fullgc was called in the middle of the sweep of a cycle
\* (the sweep list of luaC_step is left as it was), kept a table and the
\* object it references and took a dead object off allgc.
C30_Witness ==
    /\ fullgc_log.ran
    /\ g_sweep_list # <<>>
    /\ Len(allgc) < Len(heap)
    /\ \E o \in fullgc_log.kept : heap[o].refs # <<>>

\* test_gc_step_cycle: the objects it puts on allgc and the steps it takes
TestObjs == 10

TestSteps == 10

\* bound of the runs: the steps taken
MaxSteps == 14

NoSweepAll == [ran |-> FALSE, white |-> {}, black |-> {}]

InitCycVars ==
    /\ nsteps = 0
    /\ sweep_all_log = NoSweepAll

\* L.global.allgc.push_back(GCObject::default()), before the first step: the
\* object is on allgc and on no root
PushAllgc ==
    /\ nsteps = 0
    /\ Len(heap) < TestObjs
    /\ heap' = Append(heap, DefaultObject("String"))
    /\ allgc' = Append(allgc, Len(heap) + 1)
    /\ UNCHANGED <<gcstate, gray, finobj, tobefnz, g_sweep_list, current_white,
                   registry, global_table, metatables, weak_tables, L_stack,
                   L_openupval, fullgc_log, quiet_cycles, barriered, sweep_log,
                   cycVars, tableVars, doVars, coVars, yVars, finVars, memVars,
                   vmVars, growVars, upVars, mmVars>>

\* one luaC_step(&mut L) of the loop of the test
CountedStep ==
    /\ nsteps < MaxSteps
    /\ luaC_step_gc
    /\ nsteps' = nsteps + 1
    /\ UNCHANGED <<sweep_all_log, tableVars, doVars, coVars, yVars, finVars, memVars, vmVars,
                   growVars, upVars, mmVars>>

NextCycle ==
    \/ PushAllgc
    \/ CountedStep

\* C34: from Pause with no roots and ten unmarked objects on allgc, after
\* exactly ten calls of luaC_step a full cycle is over and the collector is
\* in Pause.
C34_TenStepsOneCycle ==
    (nsteps = TestSteps /\ Len(heap) = TestObjs) => gcstate = "Pause"

\* test_mark_and_sweep: the colours it gives the objects it puts on allgc
SweepMarks == {WHITE0BIT, WHITE1BIT, 0, BLACKBIT}

\* o.marked = m; g.allgc.push_back(o): the object is on allgc and on no root
PushMarked(m) ==
    /\ Len(heap) < MaxObjs + 1
    /\ heap' = Append(heap, [DefaultObject("String") EXCEPT !.marked = m])
    /\ allgc' = Append(allgc, Len(heap) + 1)
    /\ sweep_all_log' = NoSweepAll
    /\ UNCHANGED <<gcstate, gray, finobj, tobefnz, g_sweep_list, current_white,
                   registry, global_table, metatables, weak_tables, L_stack,
                   L_openupval, fullgc_log, quiet_cycles, barriered, sweep_log,
                   nsteps, tableVars, doVars, coVars, yVars, finVars, memVars,
                   vmVars, growVars, upVars, mmVars>>

\* sweep_list(&mut g.allgc, usize::MAX)
SweepAllgc ==
    /\ heap' = sweep_list(heap, allgc, USIZE_MAX).heap
    /\ allgc' = sweep_list(heap, allgc, USIZE_MAX).list
    /\ sweep_all_log' =
          [ran |-> TRUE,
           white |-> {o \in Range(allgc) : iswhite(heap[o].marked)},
           black |-> {o \in Range(allgc) : isblack(heap[o].marked)}]
    /\ UNCHANGED <<gcstate, gray, finobj, tobefnz, g_sweep_list, current_white,
                   registry, global_table, metatables, weak_tables, L_stack,
                   L_openupval, fullgc_log, quiet_cycles, barriered, sweep_log,
                   nsteps, tableVars, doVars, coVars, yVars, finVars, memVars,
                   vmVars, growVars, upVars, mmVars>>

NextSweepAll ==
    \/ \E m \in SweepMarks : PushMarked(m)
    \/ SweepAllgc

\* C35: sweep_list with an unlimited quantum removes exactly the white
\* objects of the list, and every object that stays on the list is still
\* black after the sweep.
C35_SweepKeepsBlack ==
    sweep_all_log.ran =>
        /\ Range(allgc) \cap sweep_all_log.white = {}
        /\ sweep_all_log.black \subseteq Range(allgc)
        /\ \A o \in sweep_all_log.black : isblack(heap[o].marked)

\* the cycle of the phases: what comes directly after phase p
PhaseAfter(p) ==
    CASE p = "Pause" -> {"Propagate"}
      [] p = "Propagate" -> {"Atomic"}
      [] p = "Atomic" -> {"SweepAllGC"}
      [] p = "SweepAllGC" -> {"SweepFinObj"}
      [] p = "SweepFinObj" -> {"SweepToBeFNZ"}
      [] p = "SweepToBeFNZ" -> {"SweepEnd"}
      [] p = "SweepEnd" -> {"CallFin", "Pause"}
      [] OTHER -> {"Pause"}

\* C26: each luaC_step leaves the phase of the collector unchanged or moves
\* it to its immediate successor in the cycle Pause, Propagate, Atomic,
\* SweepAllGC, SweepFinObj, SweepToBeFNZ, SweepEnd, (CallFin,) Pause.
C26_PhaseOrder ==
    [][luaC_step => gcstate' \in {gcstate} \cup PhaseAfter(gcstate)]_vars

\* C26 witness: steps have taken the collector through marking and the three
\* sweeps to SweepEnd, with objects on allgc and the sweep list swept in
\* more than one step of SweepAllGC.
C26_Witness ==
    /\ gcstate = "SweepEnd"
    /\ allgc # <<>>
    /\ sweep_log.swept # {}
    /\ sweep_log.born = {}

\* the white objects that object o references
WhiteRefs(o) == {v \in Range(heap[o].refs) : iswhite(heap[v].marked)}

\* what a step of luaC_step in Propagate does
PropagateEffect ==
    IF gray # <<>>
    THEN LET o == Head(gray)
         IN /\ isgray(heap[o].marked)
            /\ isblack(heap'[o].marked)
            /\ o \notin Range(gray')
            /\ \A v \in WhiteRefs(o) :
                  isgray(heap'[v].marked) /\ v \in Range(gray')
            /\ Len(gray') = Len(gray) - 1 + Cardinality(WhiteRefs(o))
            /\ \A v \in DOMAIN heap \ ({o} \cup WhiteRefs(o)) :
                  heap'[v].marked = heap[v].marked
            /\ gcstate' = "Propagate"
    ELSE /\ gcstate' = "Atomic"
         /\ heap' = heap
         /\ gray' = gray

C28_LiveNotSwept ==
    sweep_log.live \cap sweep_log.swept = {}

\* the runs of the sweep claim: the mutator allocates, links and drops
\* objects between the steps of the collector
NextSweep ==
    \/ \E ty \in GCTypes : NewObj(ty)
    \/ PopStack
    \/ \E i, j \in 1..MaxStack : TableSet(i, j)
    \/ luaC_step

\* C18: an object allocated after sweeping has begun (after Atomic flipped
\* the current white) is not removed by the sweep phases of that cycle: no
\* call of sweep_list takes it off the list it sweeps, and it stays on allgc.
C18_NewObjectNotSwept ==
    /\ sweep_log.born \cap sweep_log.swept = {}
    /\ sweep_log.born \subseteq Range(allgc)

\* C18 witness: an object was allocated during the sweep phases of a cycle
\* that has taken an older, dead object off its sweep list, and the sweep of
\* that cycle has run to its end.
C18_Witness ==
    /\ gcstate = "SweepEnd"
    /\ sweep_log.born # {}
    /\ sweep_log.swept # {}

InitFinVars ==
    /\ fin_bearing = {}
    /\ fin_calls = <<>>

\* a metatable with a __gc field is set on the object at stack slot i:
\* luaC_checkfinalizer(L, o, mt), whose body is empty.  No function of the
\* collector moves an object to finobj or tobefnz, and none invokes a
\* finalizer: fin_calls is written nowhere.
luaC_checkfinalizer(i) ==
    /\ i \in 1..Len(L_stack)
    /\ L_stack[i] \notin fin_bearing
    /\ fin_bearing' = fin_bearing \cup {L_stack[i]}
    /\ quiet_cycles' = 0
    /\ fullgc_log' = NoFullGC
    /\ UNCHANGED <<heap, gcstate, gray, allgc, finobj, tobefnz, g_sweep_list,
                   current_white, registry, global_table, metatables,
                   weak_tables, L_stack, L_openupval, barriered, sweep_log,
                   fin_calls, tableVars, doVars, coVars, yVars, memVars, vmVars, growVars, upVars, cycVars, mmVars>>

NextFin ==
    \/ \E ty \in GCTypes : NewObj(ty)
    \/ PopStack
    \/ \E i \in 1..MaxStack : luaC_checkfinalizer(i)
    \/ luaC_step

\* the number of times the finalizer of o was invoked
FinCount(o) == Cardinality({p \in 1..Len(fin_calls) : fin_calls[p] = o})

\* C19: every object pending finalization when sweeping ends (it bears a
\* finalizer and nothing reaches it) has had its finalizer invoked exactly
\* once when the collector is back in Pause, and no finalizer is ever
\* invoked twice.  Stated with the history of the cycles that luaC_step
\* ended since the mutator last acted.
C19_FinalizedOnce ==
    /\ \A o \in fin_bearing : FinCount(o) <= 1
    /\ (gcstate = "Pause" /\ quiet_cycles >= 1) =>
          \A o \in (fin_bearing \cap Range(allgc)) \ Reachable : FinCount(o) = 1

(***************************************************************************)
(* Protected calls (ldo.rs) and to-be-closed variables (func.rs)           *)
(***************************************************************************)

\* Maximum value for deltas in tbclist: USHRT_MAX
MAXDELTA == 65535

\* bounds of the protected-call runs
MaxTop == 3

MaxFrames == 2

MaxTBC == 2

\* LuaStack::new(size): the size the state is created with
StackSize == 2

\* the values a function body pushes: a number, and a value whose metatable
\* has a __close method
BodyValues == {"number", "closable"}

NoPcall ==
    [returned |-> FALSE, raised |-> FALSE, saved_top |-> 0, tbc_base |-> 0,
     result |-> "Ok", cause |-> "none"]

\* L.stack.values[idx]
ValAt(values, idx) == values[idx + 1]

\* LuaStack::push
push(values, top, value) ==
    IF top < Len(values)
    THEN [values |-> [values EXCEPT ![top + 1] = value], top |-> top + 1]
    ELSE [values |-> Append(values, value), top |-> top + 1]

\* LuaStack::set
stack_set(values, idx, value) ==
    IF idx < Len(values) THEN [values EXCEPT ![idx + 1] = value] ELSE values

\* luaD_seterrorobj(L, errcode, oldtop): the values afterwards
luaD_seterrorobj(values, errcode, oldtop) ==
    LET errval == CASE errcode = "RuntimeError" -> "Runtime error"
                    [] errcode = "MemoryError" -> "Memory error"
                    [] errcode = "ErrorHandler" -> "Error handler error"
                    [] OTHER -> "nil"
    IN IF oldtop < Len(values) THEN stack_set(values, oldtop, errval) ELSE values

\* the values luaD_seterrorobj produces for an error status
ErrorValues == {"Runtime error", "Memory error", "Error handler error"}

\* luaD_rawrunprotected: the status for a body that ended by a panic or not
luaD_rawrunprotected(panicked) == IF panicked THEN "RuntimeError" ELSE "Ok"

\* the while loop of luaF_newtbcupval: dummy nodes at maximum delta
RECURSIVE newtbc_dummies(_, _, _)
newtbc_dummies(tl, dl, level) ==
    IF level - tl > MAXDELTA
    THEN newtbc_dummies(tl + MAXDELTA, [dl EXCEPT ![tl + MAXDELTA + 1] = 0], level)
    ELSE [tbclist |-> tl, delta |-> dl]

\* luaF_newtbcupval past its checks: link level into the list
luaF_newtbcupval(tl, dl, level) ==
    LET d == newtbc_dummies(tl, dl, level)
    IN [tbclist |-> level,
        delta |-> [d.delta EXCEPT ![level + 1] = level - d.tbclist]]

\* the while loop of poptbclist: skip the dummy nodes
RECURSIVE pop_dummies(_, _)
pop_dummies(tbc, dl) ==
    IF tbc > 0 /\ dl[tbc + 1] = 0 THEN pop_dummies(tbc - MAXDELTA, dl) ELSE tbc

\* poptbclist: the new L->tbclist
poptbclist(tl, dl) == pop_dummies(tl - dl[tl + 1], dl)

\* the variable closed when the close method of the slot tbc runs: the last
\* one that was opened at that level
VarAt(ops, tbc) ==
    CHOOSE p \in 1..Len(ops) : ops[p] = tbc /\ \A q \in (p + 1)..Len(ops) : ops[q] # tbc

\* prepcallclosemth(L, level, status, yy) on st = [tbclist, top, values, closed]
prepcallclosemth(st, ops, level, st_code) ==
    LET prepared == IF st_code = "Ok"
                    THEN [st EXCEPT !.top = level + 1]
                    ELSE [st EXCEPT !.values = luaD_seterrorobj(@, st_code, level + 1)]
    IN [prepared EXCEPT !.closed = Append(@, VarAt(ops, level))]

\* luaF_close(L, level, status, yy); no upvalue is open
RECURSIVE luaF_close(_, _, _, _)
luaF_close(st, ops, level, st_code) ==
    IF st.tbclist >= level
    THEN LET tbc == st.tbclist
             popped == [st EXCEPT !.tbclist = poptbclist(st.tbclist, st.delta)]
         IN luaF_close(prepcallclosemth(popped, ops, tbc, st_code), ops, level, st_code)
    ELSE st

InitDoVars ==
    /\ stack_values = [p \in 1..StackSize |-> "nil"]
    /\ stack_top = 0
    /\ status = "Ok"
    /\ callinfo = <<>>
    /\ tbclist = 0
    /\ tbc_delta = [p \in 1..(MaxTop + 1) |-> 0]
    /\ pc = "idle"
    /\ pcall_log = NoPcall
    /\ opened = <<>>
    /\ closed = <<>>

\* L.stack.push(value), by the caller of the protected call or by its body
Push(value) ==
    /\ stack_top < MaxTop
    /\ LET r == push(stack_values, stack_top, value)
       IN /\ stack_values' = r.values
          /\ stack_top' = r.top
    /\ pcall_log' = [pcall_log EXCEPT !.returned = FALSE]
    /\ UNCHANGED <<status, callinfo, tbclist, tbc_delta, pc, opened, closed,
                   tableVars, gcVars, coVars, extVars>>

\* luaD_pcall_safe up to the call of func: the top at the boundary is recorded
PcallEnter ==
    /\ pc = "idle"
    /\ pc' = "body"
    /\ pcall_log' = [returned |-> FALSE, raised |-> FALSE,
                     saved_top |-> stack_top, tbc_base |-> Len(opened),
                     result |-> "Ok", cause |-> "none"]
    /\ UNCHANGED <<stack_values, stack_top, status, callinfo, tbclist,
                   tbc_delta, opened, closed, tableVars, gcVars, coVars,
                                    extVars>>

\* the body calls a function: luaD_precall(L, func_index, nresults)
Precall ==
    /\ pc = "body"
    /\ stack_top > 0
    /\ Len(callinfo) < MaxFrames
    /\ callinfo' = <<[func_index |-> stack_top - 1, base |-> stack_top,
                      top |-> stack_top + 10, nresults |-> 0]>> \o callinfo
    /\ UNCHANGED <<stack_values, stack_top, status, tbclist, tbc_delta, pc,
                   pcall_log, opened, closed, tableVars, gcVars, coVars,
                                    extVars>>

\* the called function returns: luaD_poscall(L, nresults)
Poscall ==
    /\ pc = "body"
    /\ callinfo # <<>>
    /\ callinfo' = Tail(callinfo)
    /\ UNCHANGED <<stack_values, stack_top, status, tbclist, tbc_delta, pc,
                   pcall_log, opened, closed, tableVars, gcVars, coVars,
                                    extVars>>

\* what makes the body of a protected call panic: an error raised by the
\* code it runs, an allocation that failed (luaM_toobig and its callers in
\* lmem.rs panic), an error raised while the error handler was running
Causes == {"runtime", "memory", "handler"}

\* the body ends by a panic (an error raised in any frame below the
\* boundary): catch_unwind in luaD_rawrunprotected, then the rest of
\* luaD_pcall_safe
Raise(cause) ==
    /\ pc = "body"
    /\ LET st == luaD_rawrunprotected(TRUE)
           new_status == IF st # "Ok" THEN st ELSE status
       IN /\ status' = new_status
          /\ pcall_log' = [pcall_log EXCEPT !.returned = TRUE, !.raised = TRUE,
                                            !.result = new_status,
                                            !.cause = cause]
    /\ pc' = "idle"
    /\ UNCHANGED <<stack_values, stack_top, callinfo, tbclist, tbc_delta,
                   opened, closed, tableVars, gcVars, coVars, extVars>>

\* the body returns: the rest of luaD_pcall_safe
Return ==
    /\ pc = "body"
    /\ LET st == luaD_rawrunprotected(FALSE)
           new_status == IF st # "Ok" THEN st ELSE status
       IN /\ status' = new_status
          /\ pcall_log' = [pcall_log EXCEPT !.returned = TRUE, !.raised = FALSE,
                                            !.result = new_status]
    /\ pc' = "idle"
    /\ UNCHANGED <<stack_values, stack_top, callinfo, tbclist, tbc_delta,
                   opened, closed, tableVars, gcVars, coVars, extVars>>

\* the body declares the value on top of the stack to-be-closed:
\* luaF_newtbcupval(L, level).  A value with no __close method is an error
\* (checkclosemth), which ends the body like any other error.
NewTBC ==
    /\ pc = "body"
    /\ stack_top > 0
    /\ stack_top - 1 > tbclist
    /\ Len(opened) < MaxTBC
    /\ LET level == stack_top - 1
           v == ValAt(stack_values, level)
       IN CASE v = "false" ->
                  UNCHANGED <<tbclist, tbc_delta, opened, status, pc, pcall_log>>
            [] v = "closable" ->
                  LET r == luaF_newtbcupval(tbclist, tbc_delta, level)
                  IN /\ tbclist' = r.tbclist
                     /\ tbc_delta' = r.delta
                     /\ opened' = Append(opened, level)
                     /\ UNCHANGED <<status, pc, pcall_log>>
            [] OTHER ->
                  /\ status' = luaD_rawrunprotected(TRUE)
                  /\ pcall_log' = [pcall_log EXCEPT !.returned = TRUE,
                                       !.raised = TRUE,
                                       !.result = luaD_rawrunprotected(TRUE),
                                       !.cause = "runtime"]
                  /\ pc' = "idle"
                  /\ UNCHANGED <<tbclist, tbc_delta, opened>>
    /\ UNCHANGED <<stack_values, stack_top, callinfo, closed, tableVars, gcVars, coVars,
                     extVars>>

\* the body leaves the scope of its to-be-closed variables from level on:
\* luaF_close(L, level, status, yy)
Close(level, st_code) ==
    /\ pc = "body"
    /\ level \in 1..MaxTop
    /\ tbclist >= level
    /\ LET r == luaF_close([tbclist |-> tbclist, delta |-> tbc_delta,
                            top |-> stack_top, values |-> stack_values,
                            closed |-> closed], opened, level, st_code)
       IN /\ tbclist' = r.tbclist
          /\ stack_top' = r.top
          /\ stack_values' = r.values
          /\ closed' = r.closed
    /\ UNCHANGED <<status, callinfo, tbc_delta, pc, pcall_log, opened,
                   tableVars, gcVars, coVars, extVars>>

NextDo ==
    \/ \E value \in BodyValues : Push(value)
    \/ PcallEnter
    \/ Precall
    \/ Poscall
    \/ \E cause \in Causes : Raise(cause)
    \/ Return
    \/ NewTBC
    \/ \E level \in 1..MaxTop, st_code \in {"Ok", "RuntimeError"} : Close(level, st_code)

\* C8: when an error was raised below a protected call, on return from the
\* protected call the stack top is the top saved at the entry of the call
\* plus one, and that one slot holds the error value.
C8_ErrorLeavesTopPlusOne ==
    (pcall_log.returned /\ pcall_log.raised) =>
        /\ stack_top = pcall_log.saved_top + 1
        /\ ValAt(stack_values, pcall_log.saved_top) \in ErrorValues

\* the to-be-closed variables opened by the protected call that has just
\* returned, at or above the level of its boundary
OpenedInside ==
    {p \in (pcall_log.tbc_base + 1)..Len(opened) : opened[p] >= pcall_log.saved_top}

\* C9: when a protected call has failed, every to-be-closed variable opened
\* inside it at or above the level of the boundary has had its close method
\* called exactly once, a variable opened later before a variable opened
\* earlier.
C9_FailedPcallClosesTBC ==
    (pcall_log.returned /\ pcall_log.raised) =>
        /\ \A p \in OpenedInside :
              Cardinality({c \in 1..Len(closed) : closed[c] = p}) = 1
        /\ \A c1, c2 \in 1..Len(closed) :
              (c1 < c2 /\ closed[c1] \in OpenedInside /\ closed[c2] \in OpenedInside)
                  => closed[c1] > closed[c2]

\* C38: luaD_pcall_safe returns Ok exactly when the function it ran ended
\* without raising, whatever earlier calls on the same state raised or
\* recorded: an error caught by one protected call does not change the result
\* of a later one that succeeds.
C38_OkIffNoRaise ==
    pcall_log.returned => (pcall_log.result = "Ok" <=> ~pcall_log.raised)

\* the status that names the cause of a failure
StatusOf(cause) ==
    CASE cause = "memory" -> "MemoryError"
      [] cause = "handler" -> "ErrorHandler"
      [] OTHER -> "RuntimeError"

\* C16: a protected call that failed returns a status that names the cause:
\* a runtime error, a memory allocation error, or an error raised while the
\* error handler was running.
C16_StatusNamesCause ==
    pcall_log.raised =>
        /\ pcall_log.result = StatusOf(pcall_log.cause)
        /\ pcall_log.returned => status = StatusOf(pcall_log.cause)

(***************************************************************************)
(* Coroutine library (lcorolib.rs) over the thread API (lapi.rs)           *)
(*                                                                         *)
(* The thread API of lapi.rs has no body: lua_newthread, lua_xmove,        *)
(* lua_tothread, lua_resume, lua_status, lua_gettop and lua_pushthread     *)
(* follow the specification of the coroutine scheduler.  A thread carries  *)
(* its lifecycle state and the status code lua_status reports: LUA_YIELD   *)
(* after a yield, an error code after an error, LUA_OK otherwise, which is *)
(* the convention luaB_costatus reads it with.                             *)
(***************************************************************************)

LUA_OK == 0

LUA_YIELD == 1

LUA_ERRRUN == 2

\* bounds of the coroutine runs
MaxThreads == 2

MaxResumes == 3

\* stack values
VStr(str) == [k |-> "string", s |-> str, n |-> 0]

VBool(b) == [k |-> "boolean", s |-> "", n |-> IF b THEN 1 ELSE 0]

VThread(t) == [k |-> "thread", s |-> "", n |-> t]

VFunction(body) == [k |-> "function", s |-> body, n |-> 0]

\* the functions coroutines are created from, as the steps they take: one
\* yields "a" and then returns "b", one raises an error
Body(name) ==
    IF name = "yield_a_return_b"
    THEN <<[op |-> "yield", val |-> "a"], [op |-> "return", val |-> "b"]>>
    ELSE <<[op |-> "error", val |-> "e"]>>

Bodies == {"yield_a_return_b", "raise_e"}

Main == 1

MainThread ==
    [state |-> "Running", status |-> LUA_OK, stack |-> <<>>, body |-> "main",
     pcnt |-> 0, hist |-> <<>>]

\* lua_newthread followed by the move of the function: the new thread
NewThread(body) ==
    [state |-> "Suspended", status |-> LUA_OK, stack |-> <<VFunction(body)>>,
     body |-> body, pcnt |-> 0, hist |-> <<>>]

lua_gettop(ths, t) == Len(ths[t].stack)

lua_status(ths, t) == ths[t].status

\* lua_tothread(L, 1): the thread, 0 for null
lua_tothread(ths, t) ==
    IF ths[t].stack # <<>> /\ ths[t].stack[1].k = "thread" THEN ths[t].stack[1].n ELSE 0

lua_push(ths, t, v) == [ths EXCEPT ![t].stack = Append(@, v)]

\* lua_xmove(from, to, n): the top n values of from go on top of to
lua_xmove(ths, from, to, n) ==
    IF from = to THEN ths
    ELSE LET fs == ths[from].stack
         IN [ths EXCEPT ![from].stack = SubSeq(fs, 1, Len(fs) - n),
                        ![to].stack = @ \o SubSeq(fs, Len(fs) - n + 1, Len(fs))]

\* lua_resume(co, from, nargs): a thread that is not Suspended is rejected
\* with an error status and no side effect; a Suspended one takes its
\* arguments (and, the first time, its function) and runs up to its next
\* yield, its return or its error, which leaves the values to hand over on
\* its stack
lua_resume(ths, co, from, nargs) ==
    IF ths[co].state # "Suspended"
    THEN [ths |-> ths, status |-> LUA_ERRRUN]
    ELSE LET step == Body(ths[co].body)[ths[co].pcnt + 1]
             st == CASE step.op = "yield" -> LUA_YIELD
                     [] step.op = "return" -> LUA_OK
                     [] OTHER -> LUA_ERRRUN
         IN [ths |-> [ths EXCEPT ![co].stack = <<VStr(step.val)>>,
                                 ![co].pcnt = @ + 1,
                                 ![co].status = st,
                                 ![co].state = IF step.op = "yield"
                                               THEN "Suspended" ELSE "Dead"],
             status |-> st]

\* the last n values of the stack of t: what a library function returns
Returned(ths, t, n) ==
    SubSeq(ths[t].stack, Len(ths[t].stack) - n + 1, Len(ths[t].stack))

\* luaB_coresume(L): the threads afterwards and the values returned
luaB_coresume(ths, L) ==
    LET co == lua_tothread(ths, L)
    IN IF co = 0
       THEN LET s1 == lua_push(ths, L, VBool(FALSE))
                s2 == lua_push(s1, L, VStr("bad argument #1 (coroutine expected)"))
            IN [ths |-> s2, ret |-> Returned(s2, L, 2)]
       ELSE IF lua_status(ths, co) # LUA_YIELD /\ lua_status(ths, co) # LUA_OK
       THEN LET s1 == lua_push(ths, L, VBool(FALSE))
                s2 == lua_push(s1, L, VStr("cannot resume dead coroutine"))
            IN [ths |-> s2, ret |-> Returned(s2, L, 2)]
       ELSE LET nargs == lua_gettop(ths, L) - 1
                r == lua_resume(lua_xmove(ths, L, co, nargs), co, L, nargs)
            IN IF r.status = LUA_OK \/ r.status = LUA_YIELD
               THEN LET s1 == lua_push(r.ths, L, VBool(TRUE))
                        nresults == lua_gettop(s1, co)
                        s2 == lua_xmove(s1, co, L, nresults)
                    IN [ths |-> s2, ret |-> Returned(s2, L, nresults + 1)]
               ELSE LET s1 == lua_push(r.ths, L, VBool(FALSE))
                        s2 == IF lua_gettop(s1, co) > 0
                              THEN lua_xmove(s1, co, L, 1)
                              ELSE lua_push(s1, L, VStr("coroutine error"))
                    IN [ths |-> s2, ret |-> Returned(s2, L, 2)]

\* a mutant of luaB_costatus: the last arm of the match (line 102), the one
\* of a thread that ended with an error status, answers "normal"
luaB_costatus_errnormal(ths, L, co) ==
    IF co = L THEN "running"
    ELSE CASE lua_status(ths, co) = LUA_YIELD -> "suspended"
           [] lua_status(ths, co) = LUA_OK ->
                  IF lua_gettop(ths, co) = 0 THEN "dead" ELSE "normal"
           [] OTHER -> "normal"

\* luaB_costatus(L) for the thread co: the status string
luaB_costatus(ths, L, co) ==
    IF co = L THEN "running"
    ELSE CASE lua_status(ths, co) = LUA_YIELD -> "suspended"
           [] lua_status(ths, co) = LUA_OK ->
                  IF lua_gettop(ths, co) = 0 THEN "dead" ELSE "normal"
           [] OTHER -> "dead"

InitCoVars ==
    /\ threads = <<MainThread>>
    /\ co_ret = <<>>

\* the arguments the main thread passes along with the coroutine
ResumeArgs == {<<>>, <<VStr("x")>>, <<VStr("x"), VStr("y")>>}

\* what the main thread passes as the coroutine: a thread, or a string
Targets == {VThread(t) : t \in 1..MaxThreads} \cup {VStr("x")}

\* the main thread calls coroutine.create(f): luaB_cocreate
CoCreate(body) ==
    /\ Len(threads) < MaxThreads
    /\ threads' = Append(threads, NewThread(body))
    /\ co_ret' = <<VThread(Len(threads) + 1)>>
    /\ UNCHANGED <<tableVars, gcVars, doVars, extVars>>

\* the part of a thread that a resume may change
Observed(th) == [state |-> th.state, status |-> th.status, stack |-> th.stack,
                 pcnt |-> th.pcnt]

\* the main thread calls coroutine.resume(target, args...): luaB_coresume
\* on the frame <<target, args...>>, which the caller pops afterwards
CoResume(target, args) ==
    /\ target.k = "thread" => /\ target.n <= Len(threads)
                              /\ Len(threads[target.n].hist) < MaxResumes
    /\ LET frame == [threads EXCEPT ![Main].stack = <<target>> \o args]
           r == luaB_coresume(frame, Main)
           co == lua_tothread(frame, Main)
           after == [r.ths EXCEPT ![Main].stack = <<>>]
       IN /\ co_ret' = r.ret
          /\ threads' =
               IF co = 0 THEN after
               ELSE [after EXCEPT ![co].hist = Append(@,
                        [pre |-> threads[co].state,
                         nargs |-> Len(args),
                         ret |-> r.ret,
                         changed |-> co # Main
                                     /\ Observed(after[co]) # Observed(threads[co])])]
    /\ UNCHANGED <<tableVars, gcVars, doVars, extVars>>

\* the main thread calls coroutine.status(co): luaB_costatus
CoStatus(co) ==
    /\ co \in 1..Len(threads)
    /\ co_ret' = <<VStr(luaB_costatus(threads, Main, co))>>
    /\ UNCHANGED <<threads, tableVars, gcVars, doVars, extVars>>

NextCo ==
    \/ \E body \in Bodies : CoCreate(body)
    \/ \E target \in Targets, args \in ResumeArgs : CoResume(target, args)
    \/ \E co \in 1..MaxThreads : CoStatus(co)

\* the coroutines created from the function that yields "a" and returns "b"
\* that have been resumed n times or more, without arguments each time
Lifecycle(n) ==
    {t \in 2..Len(threads) :
        /\ threads[t].body = "yield_a_return_b"
        /\ Len(threads[t].hist) >= n
        /\ \A i \in 1..Len(threads[t].hist) : threads[t].hist[i].nargs = 0}

\* C6: for a coroutine created from a function that yields "a" and then
\* returns "b", the first resume returns (true, "a") and the coroutine is
\* then suspended, the second resume returns (true, "b") and the coroutine
\* is then dead, and a third resume returns
\* (false, "cannot resume dead coroutine") and changes no stack.
C6_Lifecycle ==
    /\ \A t \in Lifecycle(1) :
          /\ threads[t].hist[1].ret = <<VBool(TRUE), VStr("a")>>
          /\ Len(threads[t].hist) = 1 => luaB_costatus(threads, Main, t) = "suspended"
    /\ \A t \in Lifecycle(2) :
          /\ threads[t].hist[2].ret = <<VBool(TRUE), VStr("b")>>
          /\ Len(threads[t].hist) = 2 => luaB_costatus(threads, Main, t) = "dead"
    /\ \A t \in Lifecycle(3) :
          /\ threads[t].hist[3].ret = <<VBool(FALSE), VStr("cannot resume dead coroutine")>>
          /\ ~threads[t].hist[3].changed

\* C7: a resume of a thread that is not Suspended (a Dead thread, or the
\* Running caller itself) returns an error status and has no side effect:
\* nothing is moved to or from the stack of the thread and the thread is
\* not run.
C7_ResumeRejected ==
    \A t \in 1..Len(threads) :
        \A i \in 1..Len(threads[t].hist) :
            threads[t].hist[i].pre # "Suspended" =>
                /\ threads[t].hist[i].ret[1] = VBool(FALSE)
                /\ ~threads[t].hist[i].changed

\* the status string of a lifecycle state
StateName(state) ==
    CASE state = "Suspended" -> "suspended"
      [] state = "Running" -> "running"
      [] state = "Normal" -> "normal"
      [] OTHER -> "dead"

\* C17: the status reported for a coroutine follows its lifecycle: suspended
\* from its creation until its first resume and after each yield, running
\* while it is the thread that executes, normal while it waits for a
\* coroutine it resumed, dead after its function returned or raised an
\* error.
C17_StatusFollowsLifecycle ==
    \A t \in 1..Len(threads) :
        luaB_costatus(threads, Main, t) = StateName(threads[t].state)

\* the runs of the error claim: coroutines are created, resumed by the main
\* thread with up to two arguments, and asked for their status
NextErr ==
    \/ \E body \in Bodies : CoCreate(body)
    \/ \E t \in 2..MaxThreads, args \in ResumeArgs : CoResume(VThread(t), args)
    \/ \E co \in 1..MaxThreads : CoStatus(co)

\* the coroutines created from the function that raises "e" outside any
\* protected call, resumed at least once
Raised ==
    {t \in 2..Len(threads) :
        threads[t].body = "raise_e" /\ Len(threads[t].hist) >= 1}

MaxNyci == 2

\* LuaState::yieldable: (self.nci & 0xffff0000) == 0
yieldable(n) == (n \div 65536) % 65536 = 0

\* LuaState::is_yieldable: the placeholder
is_yieldable(n) == TRUE

\* luaD_yield(L, nresults): the status returned
luaD_yield(L, nresults) == "Yield"

NoYield ==
    [called |-> FALSE, thread |-> 0, yieldable |-> TRUE, nresults |-> 0,
     status |-> "Ok"]

InitYVars ==
    /\ nci = 0
    /\ yield_log = NoYield

\* state.inc_nyci(): the running thread enters a non-yieldable call
IncNyci ==
    /\ nci \div 65536 < MaxNyci
    /\ nci' = nci + 65536
    /\ UNCHANGED <<yield_log, tableVars, gcVars, doVars, coVars, finVars, memVars, vmVars, growVars, upVars, cycVars, mmVars>>

\* state.dec_nyci(): the running thread leaves a non-yieldable call
DecNyci ==
    /\ nci >= 65536
    /\ nci' = nci - 65536
    /\ UNCHANGED <<yield_log, tableVars, gcVars, doVars, coVars, finVars, memVars, vmVars, growVars, upVars, cycVars, mmVars>>

\* the running thread L calls luaD_yield(L, nresults)
Yield(L, nresults) ==
    /\ L \in 1..Len(threads)
    /\ threads[L].state = "Running"
    /\ yield_log' = [called |-> TRUE, thread |-> L, yieldable |-> yieldable(nci),
                     nresults |-> nresults, status |-> luaD_yield(L, nresults)]
    /\ UNCHANGED <<nci, tableVars, gcVars, doVars, coVars, finVars, memVars, vmVars, growVars, upVars, cycVars, mmVars>>

NextYield ==
    \/ IncNyci
    \/ DecNyci
    \/ \E L \in 1..MaxThreads, nresults \in 0..1 : Yield(L, nresults)
    \/ \E body \in Bodies : CoCreate(body)
    \/ \E t \in 2..MaxThreads, args \in ResumeArgs : CoResume(VThread(t), args)

\* C15: a yield attempted while the thread is in a non-yieldable region, or
\* by a thread that is not a resumed non-main thread (the main thread), is
\* reported as an error: the status returned is not Yield.
C15_YieldRejected ==
    (yield_log.called /\ (~yield_log.yieldable \/ yield_log.thread = Main))
        => yield_log.status \notin {"Ok", "Yield"}

(***************************************************************************)
(* Memory: luaM_malloc, luaM_realloc, luaM_toobig (lmem.rs)                *)
(***************************************************************************)

GCDEBT_THRESHOLD == 1048576

\* bound on the number of allocator calls of a run
MaxAllocs == 2

\* block sizes: none, small, and one that takes the debt past the threshold
Sizes == {0, 1, GCDEBT_THRESHOLD + 1}

NoAlloc ==
    [count |-> 0, op |-> "none", result |-> "null", gc |-> FALSE,
     attempts |-> 0, allocated |-> 0, freed |-> 0]

InitMemVars ==
    /\ GCdebt = 0
    /\ mem_log = NoAlloc

\* a mutant of malloc_try: luaM_toobig right after the first failure, with
\* no collection and no second attempt
malloc_try_nogc(size, fail1, fail2) ==
    IF size = 0
    THEN [result |-> "null", gc |-> FALSE, attempts |-> 0]
    ELSE IF ~fail1
         THEN [result |-> "block", gc |-> FALSE, attempts |-> 1]
         ELSE [result |-> "MemoryError", gc |-> FALSE, attempts |-> 1]

\* luaM_malloc, lines 34-47: the attempts made with alloc, whether
\* luaC_fullgc was called in between, and what comes out (a block, null for
\* size 0, or the panic of luaM_toobig).  fail1 and fail2 say whether the
\* first and the second call of alloc return null.
malloc_try(size, fail1, fail2) ==
    IF size = 0
    THEN [result |-> "null", gc |-> FALSE, attempts |-> 0]
    ELSE IF ~fail1
         THEN [result |-> "block", gc |-> FALSE, attempts |-> 1]
         ELSE IF ~fail2
              THEN [result |-> "block", gc |-> TRUE, attempts |-> 2]
              ELSE [result |-> "MemoryError", gc |-> TRUE, attempts |-> 2]

\* luaM_realloc, lines 61-84: the same for a block of osize bytes (none when
\* osize is 0) that is to have nsize bytes
realloc_try(osize, nsize, fail1, fail2) ==
    IF nsize = 0
    THEN [result |-> "null", gc |-> FALSE, attempts |-> 0]
    ELSE IF ~fail1
         THEN [result |-> "block", gc |-> FALSE, attempts |-> 1]
         ELSE IF ~fail2
              THEN [result |-> "block", gc |-> TRUE, attempts |-> 2]
              ELSE [result |-> "MemoryError", gc |-> TRUE, attempts |-> 2]

\* luaC_fullgc followed by luaC_step, which finds the collector in Pause
luaC_fullgc_then_step ==
    LET st == mark_roots([heap |-> FullGC.heap, gray |-> <<>>],
                         global_table, registry, L_stack, L_openupval)
    IN /\ heap' = st.heap
       /\ gray' = st.gray
       /\ gcstate' = "Propagate"
       /\ current_white' = FullGC.current_white
       /\ allgc' = FullGC.allgc
       /\ finobj' = FullGC.finobj
       /\ tobefnz' = FullGC.tobefnz
       /\ fullgc_log' = NoFullGC
       /\ barriered' = {}
       /\ sweep_log' = NoSweep
       /\ UNCHANGED <<g_sweep_list, registry, global_table, metatables,
                      weak_tables, L_stack, L_openupval, quiet_cycles>>

\* the calls of the collector inside an allocation: luaC_fullgc when the
\* first attempt failed, luaC_step when the debt has passed the threshold
Collect(gc, step) ==
    CASE gc /\ step -> luaC_fullgc_then_step
      [] gc /\ ~step -> luaC_fullgc_gc
      [] ~gc /\ step -> luaC_step_gc
      [] OTHER -> UNCHANGED gcVars

\* luaM_malloc(L, size)
luaM_malloc(size, fail1, fail2) ==
    /\ mem_log.count < MaxAllocs
    /\ LET t == malloc_try(size, fail1, fail2)
           debt == IF t.result = "block" THEN GCdebt - size ELSE GCdebt
       IN /\ GCdebt' = debt
          /\ mem_log' = [count |-> mem_log.count + 1, op |-> "malloc",
                         result |-> t.result, gc |-> t.gc,
                         attempts |-> t.attempts,
                         allocated |-> IF t.result = "block"
                                       THEN mem_log.allocated + size
                                       ELSE mem_log.allocated,
                         freed |-> mem_log.freed]
          /\ Collect(t.gc, t.result = "block" /\ debt < -GCDEBT_THRESHOLD)
    /\ UNCHANGED <<tableVars, doVars, coVars, yVars, finVars, vmVars, growVars, upVars, cycVars, mmVars>>

\* luaM_realloc(L, block, osize, nsize)
luaM_realloc(osize, nsize, fail1, fail2) ==
    /\ mem_log.count < MaxAllocs
    /\ LET t == realloc_try(osize, nsize, fail1, fail2)
           debt == IF t.result = "block" THEN GCdebt - (nsize - osize)
                   ELSE GCdebt
       IN /\ GCdebt' = debt
          /\ mem_log' = [count |-> mem_log.count + 1, op |-> "realloc",
                         result |-> t.result, gc |-> t.gc,
                         attempts |-> t.attempts,
                         allocated |-> IF t.result = "block"
                                       THEN mem_log.allocated + nsize
                                       ELSE mem_log.allocated,
                         freed |-> IF t.result = "block" \/ nsize = 0
                                   THEN mem_log.freed + osize
                                   ELSE mem_log.freed]
          /\ Collect(t.gc, t.result = "block" /\ debt < -GCDEBT_THRESHOLD)
    /\ UNCHANGED <<tableVars, doVars, coVars, yVars, finVars, vmVars, growVars, upVars, cycVars, mmVars>>

\* luaM_free(L, block, osize): block is null exactly when osize is 0
luaM_free(osize) ==
    /\ mem_log.count < MaxAllocs
    /\ GCdebt' = IF osize # 0 THEN GCdebt + osize ELSE GCdebt
    /\ mem_log' = [mem_log EXCEPT !.count = @ + 1, !.op = "free",
                                  !.result = "null", !.gc = FALSE,
                                  !.attempts = 0, !.freed = @ + osize]
    /\ UNCHANGED <<gcVars, tableVars, doVars, coVars, yVars, finVars, vmVars, growVars, upVars, cycVars, mmVars>>

\* the runs of the debt claim: allocations, reallocations and frees
NextDebt ==
    \/ \E size \in Sizes, fail1, fail2 \in BOOLEAN :
          luaM_malloc(size, fail1, fail2)
    \/ \E osize, nsize \in Sizes, fail1, fail2 \in BOOLEAN :
          luaM_realloc(osize, nsize, fail1, fail2)
    \/ \E osize \in Sizes : luaM_free(osize)

\* C21: after any sequence of allocations, reallocations and frees the debt
\* equals its initial value (0) minus the bytes allocated plus the bytes
\* freed; a reallocation to size zero counts as a free of the old size.
C21_DebtIsBalance ==
    GCdebt = 0 - mem_log.allocated + mem_log.freed

NextMem ==
    \/ NewObj("String")
    \/ PopStack
    \/ \E size \in Sizes, fail1, fail2 \in BOOLEAN :
          luaM_malloc(size, fail1, fail2)
    \/ \E osize, nsize \in Sizes, fail1, fail2 \in BOOLEAN :
          luaM_realloc(osize, nsize, fail1, fail2)

\* C20: an allocation reports a memory error only after a full collection
\* has been forced and a second attempt, made after that collection, has
\* failed as well: every call of the allocator that ends in the memory
\* error has run luaC_fullgc (the collector is left in Pause by it) and has
\* made two attempts.
C20_ErrorOnlyAfterFullGC ==
    [][(mem_log'.count > mem_log.count /\ mem_log'.result = "MemoryError") =>
          /\ mem_log'.gc
          /\ mem_log'.attempts = 2
          /\ fullgc_log'.ran
          /\ gcstate' = "Pause"]_vars

\* C20 witness: a reallocation has reported a memory error, and the
\* collection it forced has taken a dead object off allgc.
C20_Witness ==
    /\ mem_log.result = "MemoryError"
    /\ mem_log.op = "realloc"
    /\ fullgc_log.ran
    /\ Len(allgc) < Len(heap)

(***************************************************************************)
(* Dispatch: Instruction, OpCode::from_u8, luaV_execute (lvm.rs) and the   *)
(* jump table (ljumptab.rs)                                                *)
(***************************************************************************)

\* bound on the A argument of the instructions dispatched
MaxArgA == 1

\* Instruction::get_opcode: (self.0 & 0x3F) as u8
get_opcode(word) == word % 64

\* enum OpCode of lvm.rs, by discriminant + 1
VMOpCodes ==
    <<"MOVE", "LOADK", "LOADBOOL", "LOADNIL", "GETUPVAL", "GETGLOBAL",
      "SETGLOBAL", "CALL", "RETURN">>

\* OpCode::from_u8: the opcode, or the panic of the last arm
from_u8(byte) ==
    IF byte < Len(VMOpCodes) THEN VMOpCodes[byte + 1] ELSE "panic"

\* one turn of the loop of luaV_execute on the instruction word: the
\* opcode is decoded and its arm taken; an opcode with no arm panics
luaV_execute(word) ==
    LET op == from_u8(get_opcode(word))
    IN IF op = "panic" THEN "panic"
       ELSE IF op \in Range(VMOpCodes) THEN "executed" ELSE "panic"

\* enum OpCode of ljumptab.rs, by discriminant + 1
JumpOpCodes ==
    <<"Move", "LoadK", "LoadBool", "LoadNil", "GetUpval", "LoadGlobal",
      "SetGlobal", "Call", "Return", "Add", "Sub", "Mul", "Div", "Mod",
      "Pow", "Concat", "Jmp", "Eq", "Lt", "Le", "Unknown">>

\* OPCODE_JUMPTABLE
OPCODE_JUMPTABLE ==
    <<"op_move", "op_loadk", "op_loadbool", "op_loadnil", "op_getupval",
      "op_loadglobal", "op_setglobal", "op_call", "op_return", "op_add",
      "op_sub", "op_mul", "op_div", "op_mod", "op_pow", "op_concat",
      "op_jmp", "op_eq", "op_lt", "op_le", "op_unknown">>

\* op as usize
Discriminant(op) == (CHOOSE i \in 1..Len(JumpOpCodes) : JumpOpCodes[i] = op) - 1

\* get_opcode_handler(op)
get_opcode_handler(op) ==
    IF Discriminant(op) < Len(OPCODE_JUMPTABLE)
    THEN OPCODE_JUMPTABLE[Discriminant(op) + 1]
    ELSE "op_unknown"

\* handler(lua_state): every handler of ljumptab.rs has an empty body and
\* returns
call_handler(handler) == "returned"

NoDispatch == [path |-> "none", word |-> 0, op |-> "none", outcome |-> "none"]

InitVMVars == vm_log = NoDispatch

\* luaV_execute fetches and dispatches the instruction word
Execute(word) ==
    /\ vm_log' = [path |-> "luaV_execute", word |-> word,
                  op |-> from_u8(get_opcode(word)),
                  outcome |-> luaV_execute(word)]
    /\ UNCHANGED <<tableVars, gcVars, doVars, coVars, yVars, finVars, memVars, growVars, upVars, cycVars, mmVars>>

\* the loop sketched in ljumptab.rs dispatches op through the jump table
Dispatch(op) ==
    /\ vm_log' = [path |-> "jumptable", word |-> Discriminant(op), op |-> op,
                  outcome |-> call_handler(get_opcode_handler(op))]
    /\ UNCHANGED <<tableVars, gcVars, doVars, coVars, yVars, finVars, memVars, growVars, upVars, cycVars, mmVars>>

NextVM ==
    \/ \E op \in 0..63, a \in 0..MaxArgA : Execute(op + 64 * a)
    \/ \E op \in Range(JumpOpCodes) : Dispatch(op)

\* C22: dispatching an instruction whose opcode the dispatch table does not
\* recognize (a byte with no OpCode in lvm.rs, OpCode::Unknown in
\* ljumptab.rs) raises a fatal error: it is never executed as a silent
\* no-op.
C22_UnknownOpcodeIsFatal ==
    vm_log.op \in {"panic", "Unknown"} => vm_log.outcome = "panic"

(***************************************************************************)
(* Limits: the value stack by its extent and the frame chain by its        *)
(* length; luaD_growstack, luaD_precall, luaD_poscall (ldo.rs) against     *)
(* LUAI_MAXSTACK and LUAI_MAXCCALLS (llimits.rs)                           *)
(***************************************************************************)

LUAI_MAXSTACK == 1000000

LUAI_MAXCCALLS == 200

\* bounds of the runs: values pushed, and how far past a limit a run goes
MaxPush == 3

MaxOver == 2

\* the requests made of luaD_growstack
GrowSizes == {1, LUAI_MAXSTACK}

InitGrowVars ==
    /\ values_len = StackSize
    /\ used_top = 0
    /\ ci_depth = 0
    /\ ci_log = [last |-> "new", fresh |-> FALSE]

\* L.stack.push(value): the slot at top is written, or the vector grows
StackPush ==
    /\ used_top < MaxPush
    /\ values_len' = IF used_top < values_len THEN values_len ELSE values_len + 1
    /\ used_top' = used_top + 1
    /\ UNCHANGED <<ci_depth, ci_log, tableVars, gcVars, doVars, coVars, yVars, finVars,
                   memVars, vmVars, upVars, cycVars, mmVars>>

\* luaD_growstack(L, n)
luaD_growstack(n) ==
    /\ used_top + n <= LUAI_MAXSTACK + MaxOver
    /\ values_len' = IF used_top + n > values_len THEN used_top + n
                     ELSE values_len
    /\ UNCHANGED <<used_top, ci_depth, ci_log, tableVars, gcVars, doVars, coVars, yVars,
                   finVars, memVars, vmVars, upVars, cycVars, mmVars>>

\* luaD_precall(L, func_index, nresults): a CallInfo is made by
\* CallInfo::new, boxed by Box::new in push_callinfo and put in front of the
\* chain; true is returned
luaD_precall ==
    /\ ci_depth < LUAI_MAXCCALLS + MaxOver
    /\ ci_depth' = ci_depth + 1
    /\ ci_log' = [last |-> "precall", fresh |-> TRUE]
    /\ UNCHANGED <<values_len, used_top, tableVars, gcVars, doVars, coVars,
                   yVars, finVars, memVars, vmVars, upVars, cycVars, mmVars>>

\* luaD_poscall(L, nresults): pop_callinfo takes the node off the chain and
\* drops it
luaD_poscall ==
    /\ ci_depth > 0
    /\ ci_depth' = ci_depth - 1
    /\ ci_log' = [last |-> "poscall", fresh |-> FALSE]
    /\ UNCHANGED <<values_len, used_top, tableVars, gcVars, doVars, coVars,
                   yVars, finVars, memVars, vmVars, upVars, cycVars, mmVars>>

NextGrow ==
    \/ StackPush
    \/ \E n \in GrowSizes : luaD_growstack(n)
    \/ luaD_precall
    \/ luaD_poscall

\* C23: the value stack never grows beyond LUAI_MAXSTACK slots and the
\* frame chain never beyond LUAI_MAXCCALLS frames: a request that would
\* pass the limit raises an error and grows nothing.
C23_StackAndCallsBounded ==
    /\ values_len <= LUAI_MAXSTACK
    /\ ci_depth <= LUAI_MAXCCALLS

\* the indices and sizes passed to the stack functions
MaxIdx == 2 * (StackSize + MaxPush)

StackIdx == 0..MaxIdx

\* L.stack.pop(): None on an empty stack, else the slot under top
StackPop ==
    /\ used_top > 0
    /\ values_len' = values_len
    /\ used_top' = used_top - 1
    /\ UNCHANGED <<ci_depth, ci_log, tableVars, gcVars, doVars, coVars, yVars,
                   finVars, memVars, vmVars, upVars, cycVars, mmVars>>

\* luaD_insert(L, idx, value)
luaD_insert(idx) ==
    /\ values_len < MaxIdx
    /\ used_top < MaxIdx
    /\ values_len' = IF idx <= used_top THEN values_len + 1 ELSE values_len
    /\ used_top' = IF idx <= used_top THEN used_top + 1 ELSE used_top
    /\ UNCHANGED <<ci_depth, ci_log, tableVars, gcVars, doVars, coVars, yVars,
                   finVars, memVars, vmVars, upVars, cycVars, mmVars>>

\* luaD_remove(L, idx)
luaD_remove(idx) ==
    /\ idx < values_len
    /\ values_len' = IF idx < used_top THEN values_len - 1 ELSE values_len
    /\ used_top' = IF idx < used_top THEN used_top - 1 ELSE used_top
    /\ UNCHANGED <<ci_depth, ci_log, tableVars, gcVars, doVars, coVars, yVars,
                   finVars, memVars, vmVars, upVars, cycVars, mmVars>>

\* luaD_settop(L, idx)
luaD_settop(idx) ==
    /\ values_len' = values_len
    /\ used_top' = idx
    /\ UNCHANGED <<ci_depth, ci_log, tableVars, gcVars, doVars, coVars, yVars,
                   finVars, memVars, vmVars, upVars, cycVars, mmVars>>

\* luaD_restorestack(L, oldtop)
luaD_restorestack(oldtop) ==
    /\ values_len' = values_len
    /\ used_top' = oldtop
    /\ UNCHANGED <<ci_depth, ci_log, tableVars, gcVars, doVars, coVars, yVars,
                   finVars, memVars, vmVars, upVars, cycVars, mmVars>>

\* luaD_reallocstack(L, newsize): resize cuts or fills with Nil
luaD_reallocstack(newsize) ==
    /\ values_len' = newsize
    /\ used_top' = used_top
    /\ UNCHANGED <<ci_depth, ci_log, tableVars, gcVars, doVars, coVars, yVars,
                   finVars, memVars, vmVars, upVars, cycVars, mmVars>>

\* luaD_shrinkstack(L): truncate(used + 10)
luaD_shrinkstack ==
    /\ values_len' = IF used_top + 10 < values_len THEN used_top + 10 ELSE values_len
    /\ used_top' = used_top
    /\ UNCHANGED <<ci_depth, ci_log, tableVars, gcVars, doVars, coVars, yVars,
                   finVars, memVars, vmVars, upVars, cycVars, mmVars>>

NextStack ==
    \/ StackPush
    \/ StackPop
    \/ \E idx \in StackIdx : luaD_insert(idx)
    \/ \E idx \in StackIdx : luaD_remove(idx)
    \/ \E idx \in StackIdx : luaD_settop(idx)
    \/ \E oldtop \in StackIdx : luaD_restorestack(oldtop)
    \/ \E n \in 1..MaxPush : luaD_growstack(n)
    \/ \E newsize \in StackIdx : luaD_reallocstack(newsize)
    \/ luaD_shrinkstack

\* C37: after any sequence of push, pop, luaD_insert, luaD_remove,
\* luaD_settop, luaD_restorestack, luaD_growstack, luaD_reallocstack and
\* luaD_shrinkstack the top is at most the number of allocated slots, so the
\* next pop or push indexes inside the stack.
C37_TopWithinStack == used_top <= values_len

\* C31: precall allocates a new CallInfo node only when no node used before
\* is available beyond the current frame, postcall keeping the node of the
\* finished frame: a call that follows a return, at the depth of the frame
\* that returned, allocates no node.
C31_FrameReuse ==
    [][(luaD_precall /\ ci_log.last = "poscall") => ~ci_log'.fresh]_vars

(***************************************************************************)
(* Upvalues: luaF_closeupval (func.rs) with the barrier of lgc.rs.  An     *)
(* upvalue is its level, its colour and the colour of the object held by   *)
(* the stack slot it refers to.                                            *)
(***************************************************************************)

MaxUpvals == 2

MaxLevel == 3

\* the colours the collector may have given an open upvalue, and those of
\* the object in its slot
UpvalMarks == {WHITE0BIT, 0, BLACKBIT}

ValueMarks == {WHITE0BIT, BLACKBIT}

\* nw2black(uv): the black bit is set on an object that is not white
nw2black(m) == set2black(m)

\* luaC_barrier(L, o, v), what it leaves in o.marked
luaC_barrier_marked(om, vm) ==
    IF isblack(om) /\ iswhite(vm) THEN set2gray(om) ELSE om

\* luaF_closeupval, the body of the loop for one upvalue: the value moves
\* into the upvalue, and a non-white upvalue is blackened and given to the
\* barrier
close_one(uv) ==
    [level |-> uv.level, value |-> uv.value,
     marked |-> IF ~iswhite(uv.marked)
                THEN luaC_barrier_marked(nw2black(uv.marked), uv.value)
                ELSE uv.marked]

\* luaF_closeupval(L, level): the list that stays open and the upvalues closed
RECURSIVE luaF_closeupval(_, _, _)
luaF_closeupval(list, level, done) ==
    IF list = <<>> THEN [open |-> list, closed |-> done]
    ELSE IF Head(list).level >= level
    THEN luaF_closeupval(Tail(list), level, Append(done, close_one(Head(list))))
    ELSE [open |-> list, closed |-> done]

InitUpVars ==
    /\ up_open = <<>>
    /\ up_closed = <<>>

\* an upvalue is opened for the stack slot at level, above the open ones;
\* marked and value are the colours the collector has left on the upvalue
\* and on the object in the slot by the time the upvalue is closed
OpenUpval(level, marked, value) ==
    /\ Len(up_open) < MaxUpvals
    /\ IF up_open = <<>> THEN TRUE ELSE Head(up_open).level < level
    /\ up_open' = <<[level |-> level, marked |-> marked, value |-> value]>>
                      \o up_open
    /\ UNCHANGED <<up_closed, tableVars, gcVars, doVars, coVars, yVars, finVars,
                   memVars, vmVars, growVars, cycVars, mmVars>>

\* luaF_closeupval(L, level)
CloseUpval(level) ==
    /\ up_open' = luaF_closeupval(up_open, level, <<>>).open
    /\ up_closed' = luaF_closeupval(up_open, level, <<>>).closed
    /\ UNCHANGED <<tableVars, gcVars, doVars, coVars, yVars, finVars, memVars,
                   vmVars, growVars, cycVars, mmVars>>

NextUp ==
    \/ \E level \in 1..MaxLevel, marked \in UpvalMarks, value \in ValueMarks :
          OpenUpval(level, marked, value)
    \/ \E level \in 1..MaxLevel : CloseUpval(level)

\* C32: every upvalue closed by close_upvalues(level) is white or black when
\* the close has finished and never gray, also when it was not white before
\* and the value copied into it is white.
C32_ClosedNeverGray ==
    \A p \in 1..Len(up_closed) : ~isgray(up_closed[p].marked)

(***************************************************************************)
(* Specifications                                                          *)
(***************************************************************************)

(***************************************************************************)
(* Metamethod registry (ltm.rs)                                            *)
(***************************************************************************)

\* the names a caller registers
MaxNames == 3

MMNames == 1..MaxNames

\* TMS::COUNT
TMS_COUNT == 24

\* the ordinals of the enum TMS: Index = 0 .. Close = 24
BuiltinOrdinals == 0..24

\* reg.len()
RegLen == Cardinality(DOMAIN DYNAMIC_METAMETHODS)

InitMMVars ==
    /\ DYNAMIC_METAMETHODS = << >>
    /\ mm_ret = 0

\* register_metamethod(name): idx = reg.len() + TMS::COUNT, inserted only
\* when the name is absent, and returned in either case
register_metamethod(name) ==
    LET idx == RegLen + TMS_COUNT IN
    /\ DYNAMIC_METAMETHODS' =
           IF name \in DOMAIN DYNAMIC_METAMETHODS
           THEN DYNAMIC_METAMETHODS
           ELSE [n \in DOMAIN DYNAMIC_METAMETHODS \cup {name} |->
                     IF n = name THEN idx ELSE DYNAMIC_METAMETHODS[n]]
    /\ mm_ret' = idx
    /\ UNCHANGED <<tableVars, gcVars, doVars, coVars, yVars, finVars, memVars,
                   vmVars, growVars, upVars, cycVars>>

\* unregister_metamethod(name): reg.remove(name)
unregister_metamethod(name) ==
    /\ DYNAMIC_METAMETHODS' =
           [n \in DOMAIN DYNAMIC_METAMETHODS \ {name} |-> DYNAMIC_METAMETHODS[n]]
    /\ UNCHANGED mm_ret
    /\ UNCHANGED <<tableVars, gcVars, doVars, coVars, yVars, finVars, memVars,
                   vmVars, growVars, upVars, cycVars>>

NextMM ==
    \/ \E name \in MMNames : register_metamethod(name)
    \/ \E name \in MMNames : unregister_metamethod(name)

\* C39: after any sequence of register_metamethod and unregister_metamethod
\* calls, no two registered custom names have the same index, and no custom
\* index equals the ordinal of a built-in metamethod (Index = 0 .. Close = 24).
C39_CustomIndicesDistinct ==
    /\ \A a, b \in DOMAIN DYNAMIC_METAMETHODS :
           a # b => DYNAMIC_METAMETHODS[a] # DYNAMIC_METAMETHODS[b]
    /\ \A a \in DOMAIN DYNAMIC_METAMETHODS :
           DYNAMIC_METAMETHODS[a] \notin BuiltinOrdinals

\* the half of C39 about collisions between custom names, on its own
C39_NoSharedIndex ==
    \A a, b \in DOMAIN DYNAMIC_METAMETHODS :
        a # b => DYNAMIC_METAMETHODS[a] # DYNAMIC_METAMETHODS[b]

Init == InitTableVars /\ InitGCVars /\ InitDoVars /\ InitCoVars /\ InitYVars /\ InitFinVars
        /\ InitMemVars /\ InitVMVars /\ InitGrowVars
        /\ InitUpVars /\ InitCycVars /\ InitMMVars

SpecTable == Init /\ [][NextTable]_vars

SpecNext == Init /\ [][NextNext]_vars

SpecGC == Init /\ [][NextGC]_vars

SpecDo == Init /\ [][NextDo]_vars

SpecCo == Init /\ [][NextCo]_vars

SpecLen == Init /\ [][NextLen]_vars

SpecParts == Init /\ [][NextParts]_vars

SpecSweep == Init /\ [][NextSweep]_vars

SpecFin == Init /\ [][NextFin]_vars

SpecMem == Init /\ [][NextMem]_vars

SpecDebt == Init /\ [][NextDebt]_vars

SpecVM == Init /\ [][NextVM]_vars

SpecGrow == Init /\ [][NextGrow]_vars

SpecNil == Init /\ [][NextNil]_vars

SpecFull == Init /\ [][NextFull]_vars

SpecUp == Init /\ [][NextUp]_vars

SpecRehash == Init /\ [][NextRehash]_vars

SpecCycle == Init /\ [][NextCycle]_vars

SpecSweepAll == Init /\ [][NextSweepAll]_vars

SpecStack == Init /\ [][NextStack]_vars

SpecMM == Init /\ [][NextMM]_vars

SpecErr == Init /\ [][NextErr]_vars

SpecYield == Init /\ [][NextYield]_vars

====
